---- MODULE Spec2Model ----
(***************************************************************************)
(* A model of Battle.py: the Unit / Army / FightPairs / Battle classes and *)
(* the turn loop of Battle.do.                                             *)
(*                                                                         *)
(* Floats are modelled in fixed point:                                     *)
(*   positions  in units of Unit.EPS (0.0005), so 1.0 = PosUnit,           *)
(*   morale, speed, cover, fight balance in thousandths (1.0 = Milli),     *)
(*   power in tenths (1.0 = PowUnit).                                      *)
(***************************************************************************)
EXTENDS Integers, Sequences, FiniteSets, TLC

VARIABLES units, file_units, reserves, removed, fight_pairs, army_stance,
          landscape, hash_order, turns, pc, todo, err, outcome, moved, penalised

vars == <<units, file_units, reserves, removed, fight_pairs, army_stance,
          landscape, hash_order, turns, pc, todo, err, outcome, moved, penalised>>

----------------------------------------------------------------------------
(* Fixed-point scales *)

PosUnit == 2000
Milli == 1000
PowUnit == 10

(* Module constants of Battle.py *)
EPS == 1
RESERVE_DIST_BEHIND == 2 * PosUnit
MIN_DEPLOY_DIST == PosUnit
SIDE_RANGE_PENALTY == PosUnit \div 2
BASE_SPEED == 20
CHARGE_DISTANCE == 2
HALT_POWER_GRADIENT == 20
POWER_SCALE == 50
LOW_MORALE_POWER == 200
TERRAIN_POWER == 300
HEIGHT_DIF_POWER == 20
RESERVES_SOFT_CAP == 500
PURSUE_MORALE == -(Milli \div 4)
FILE_EMPTY == 0
FILE_SUPPORTED == Milli \div 10
FILE_VULNERABLE == -(Milli \div 5)
FILE_MEAN == (FILE_SUPPORTED + FILE_VULNERABLE) \div 2
FILE_DIFF == FILE_SUPPORTED - FILE_VULNERABLE
TURN_CAP == 1000

(* Config.DELTA_T = 1 / TicksPerTime *)
TicksPerTime == 10

(* BattleOutcome and Stance *)
BOTH_LOST == 0
WIN_1 == 1
WIN_2 == 2
STALEMATE == 3
AGGR == 0
NEUT == 1
DEFN == 2

----------------------------------------------------------------------------
(* Arithmetic helpers *)

Abs(x) == IF x < 0 THEN -x ELSE x
Min(a, b) == IF a <= b THEN a ELSE b
Max(a, b) == IF a >= b THEN a ELSE b
Sign(x) == IF x < 0 THEN -1 ELSE 1

(* round(x, POS_DEC_DIG): positions are counted in half thousandths, so the *)
(* rounded values are the even ones; a tie goes to the even thousandth.     *)
Round3(p) ==
    IF p % 2 = 0 THEN p
    ELSE IF ((p - 1) \div 2) % 2 = 0 THEN p - 1 ELSE p + 1

(* 2.0 ** (x / 1000) in thousandths: exact at multiples of 1/8, linear between. *)
Exp2Table == <<1000, 1091, 1189, 1297, 1414, 1542, 1682, 1834, 2000>>

RECURSIVE Shift2(_, _)
Shift2(v, q) ==
    IF q = 0 THEN v
    ELSE IF q > 0 THEN Shift2(2 * v, q - 1)
    ELSE Shift2(v \div 2, q + 1)

Exp2(x) ==
    LET q == x \div 1000
        r == x % 1000
        k == r \div 125
        lo == Exp2Table[k + 1]
        hi == Exp2Table[k + 2]
        frac == lo + ((hi - lo) * (r % 125)) \div 125
    IN  Shift2(frac, Max(-12, Min(q, 12)))

(* log(1 + t / RESERVES_SOFT_CAP) in ten-thousandths, by 2*atanh(t/(2c+t)). *)
Log1p(t) ==
    LET z == (t * 10000) \div (2 * RESERVES_SOFT_CAP + t)
        z2 == (z * z) \div 10000
        z3 == (z2 * z) \div 10000
        z5 == (((z3 * z) \div 10000) * z) \div 10000
    IN  2 * (z + z3 \div 3 + z5 \div 5)

----------------------------------------------------------------------------
(* UnitType: immutable templates (power, rigidity, speed, att_range)      *)

UnitTypeNames == {"pike", "archer", "horse"}

UnitType(name) ==
    CASE name = "pike"   -> [power |-> 100, rigidity |-> 0, speed |-> 1, att_range |-> 1]
      [] name = "archer" -> [power |-> 60,  rigidity |-> 0, speed |-> 1, att_range |-> 3]
      [] name = "horse"  -> [power |-> 100, rigidity |-> 1, speed |-> 2, att_range |-> 1]

power(u) == UnitType(u.unit_type).power * PowUnit
speed(u) == UnitType(u.unit_type).speed
rigidity(u) == UnitType(u.unit_type).rigidity
att_range(u) == UnitType(u.unit_type).att_range * PosUnit
smoothness_desire(u) == rigidity(u) + (speed(u) - 1)

----------------------------------------------------------------------------
(* Landscape: the external collaborator, a record of uniform terrain      *)
(* parameters: cover and roughness in thousandths, and the height of the  *)
(* ground as slope * |position| (a valley when slope > 0).                *)

landscape_get_height(l, file, position) == (l.slope * Abs(position) * PowUnit) \div PosUnit
landscape_get_roughness(l, file, position) == l.roughness
landscape_get_mean_scaled_roughness(l, file, position, desire) == -(l.roughness * desire)
landscape_get_mean_cover(l, file, position) == l.cover

----------------------------------------------------------------------------
(* Unit: attributes and queries. u, v are unit records.                    *)

moving_to_pos(u) == u.init_pos < 0
moving_to_neg(u) == u.init_pos > 0
at_home(u) == u.position = u.init_pos
at_end(u) == u.position = -u.init_pos
get_dist_to(u, position) == Abs(u.position - position)

is_in_front(u, v) == u.file = v.file

get_eff_range_against(u, v) ==
    IF is_in_front(u, v) THEN att_range(u) ELSE att_range(u) - SIDE_RANGE_PENALTY

is_in_range_of(u, v) == get_dist_to(u, v.position) <= get_eff_range_against(u, v) + EPS

get_position_to_attack_target(u, v) ==
    LET eff_range == get_eff_range_against(u, v) - EPS
    IN  IF u.position < v.position - eff_range THEN v.position - eff_range
        ELSE IF u.position > v.position + eff_range THEN v.position + eff_range
        ELSE u.position

get_signed_distance_to_unit(u, v) ==
    LET dist == v.position - u.position
    IN  IF moving_to_pos(u) THEN dist ELSE -dist

(* height in tenths, as get_power_from_terrain uses it *)
get_height(u, l) == landscape_get_height(l, u.file, u.position)

(* speed * (1 - roughness), in thousandths *)
get_eff_speed(u, l) == speed(u) * (Milli - landscape_get_roughness(l, u.file, u.position))

get_power_from_terrain(u, l) ==
    LET rghn == landscape_get_mean_scaled_roughness(l, u.file, u.position, smoothness_desire(u))
    IN  (rghn * TERRAIN_POWER * PowUnit) \div Milli + get_height(u, l) * HEIGHT_DIF_POWER

is_charge_range_of(u, target_pos) ==
    get_dist_to(u, target_pos) < speed(u) * CHARGE_DISTANCE * PosUnit

(* Unit: basic setters, each returning the changed unit record *)

(* fault seeding: a cap that rounds but does not clamp to the field *)
cap_position_unclamped(u) == [u EXCEPT !.position = Round3(u.position)]

cap_position(u) ==
    LET capped == Max(-Abs(u.init_pos), Min(u.position, Abs(u.init_pos)))
    IN  [u EXCEPT !.position = Round3(capped)]

unit_set_up(u, init_pos) ==
    LET v == [u EXCEPT !.init_pos = init_pos]
    IN  [v EXCEPT !.position = init_pos + EPS * (IF moving_to_pos(v) THEN 1 ELSE -1)]

move_by(u, dist) == cap_position([u EXCEPT !.position = u.position + dist])

move_to(u, position) == cap_position([u EXCEPT !.position = position])

(* speed * BASE_SPEED * DELTA_T, speed in thousandths, result in positions *)
StepOf(sp) == (sp * BASE_SPEED * PosUnit) \div (Milli * TicksPerTime)

(* fault seeding: a step that is dropped when it is shorter than a full one *)
move_towards_full_steps_only(u, target, sp) ==
    IF u.position + StepOf(sp) <= target THEN move_to(u, u.position + StepOf(sp))
    ELSE IF u.position - StepOf(sp) >= target THEN move_to(u, u.position - StepOf(sp))
    ELSE u

move_towards(u, target, sp) ==
    IF u.position < target THEN move_to(u, Min(u.position + StepOf(sp), target))
    ELSE IF u.position > target THEN move_to(u, Max(u.position - StepOf(sp), target))
    ELSE u

deploy_close_to(u, file, ref_pos) ==
    LET v == [u EXCEPT !.file = file]
        position == IF moving_to_pos(v)
                    THEN Max(ref_pos - RESERVE_DIST_BEHIND, v.init_pos + MIN_DEPLOY_DIST)
                    ELSE Min(ref_pos + RESERVE_DIST_BEHIND, v.init_pos - MIN_DEPLOY_DIST)
    IN  move_to(v, position)

(* whether move_safely_away_from_pos / move_towards reach their move_to *)
moves_safely_away(u, ref_pos) ==
    \/ u.position < ref_pos + PosUnit /\ moving_to_neg(u)
    \/ u.position > ref_pos - PosUnit /\ moving_to_pos(u)
moves_towards(u, target) == u.position # target

move_safely_away_from_pos(u, ref_pos) ==
    IF u.position < ref_pos + PosUnit /\ moving_to_neg(u) THEN move_to(u, ref_pos + PosUnit)
    ELSE IF u.position > ref_pos - PosUnit /\ moving_to_pos(u) THEN move_to(u, ref_pos - PosUnit)
    ELSE u

----------------------------------------------------------------------------
(* The mutable objects of a battle, as one record w:                       *)
(*   units      unit id -> Unit record                                     *)
(*   file_units army -> the dict file_units, as the sequence of its items  *)
(*              [file, unit] in insertion order                            *)
(*   reserves, removed   army -> list of unit ids                          *)
(*   fight_pairs         the FightPairs object                             *)
(*   err        "none", or the exception that aborted the run              *)
(*   moved      (history) the units a move operation has acted on          *)
(*   penalised  (history) the units that caused a pursue penalty, in order *)

NoUnit == 0
Armies == {1, 2}
OtherArmy(a) == 3 - a

RECURSIVE SumSeq(_)
SumSeq(s) == IF s = <<>> THEN 0 ELSE Head(s) + SumSeq(Tail(s))

Raise(w, e) == IF w.err = "none" THEN [w EXCEPT !.err = e] ELSE w

SetUnit(w, uid, rec) == [w EXCEPT !.units[uid] = rec]
MarkMoved(w, uid, did) == IF did THEN [w EXCEPT !.moved = @ \cup {uid}] ELSE w

(* dict helpers on a sequence of [file, unit] items *)
DictHas(d, file) == \E i \in DOMAIN d : d[i].file = file
DictGet(d, file) == d[CHOOSE i \in DOMAIN d : d[i].file = file].unit
DictDel(d, file) == SelectSeq(d, LAMBDA e : e.file # file)
DictSet(d, file, uid) ==
    IF DictHas(d, file)
    THEN [i \in DOMAIN d |-> IF d[i].file = file THEN [file |-> file, unit |-> uid] ELSE d[i]]
    ELSE Append(d, [file |-> file, unit |-> uid])
DictValues(d) == [i \in DOMAIN d |-> d[i].unit]
DictKeys(d) == [i \in DOMAIN d |-> d[i].file]

(* Army attributes *)
deployed_units(w, a) == DictValues(w.file_units[a])
defeated(w, a) == w.file_units[a] = <<>>
army_units(w, a) == deployed_units(w, a) \o w.reserves[a] \o w.removed[a]

reserve_power(w, a) ==
    LET total == SumSeq([i \in DOMAIN w.reserves[a] |->
                            UnitType(w.units[w.reserves[a][i]].unit_type).power])
    IN  (RESERVES_SOFT_CAP * Log1p(total) * PowUnit) \div (6 * 10000)

is_file_active(w, a, file) == DictHas(w.file_units[a], file)

(* asserts file # 0; the callers below test that before calling *)
is_file_towards_centre_active(w, a, file) ==
    is_file_active(w, a, IF file < 0 THEN file + 1 ELSE file - 1)

get_neighbors(w, a, file, include_self) ==
    (IF include_self /\ is_file_active(w, a, file)
        THEN <<DictGet(w.file_units[a], file)>> ELSE <<>>)
    \o (IF is_file_active(w, a, file - 1)
        THEN <<DictGet(w.file_units[a], file - 1)>> ELSE <<>>)
    \o (IF is_file_active(w, a, file + 1)
        THEN <<DictGet(w.file_units[a], file + 1)>> ELSE <<>>)

(* min(seq, key=...) of Python: the first element of the least key, NoUnit if empty *)
RECURSIVE MinByKey(_, _, _)
MinByKey(s, key(_), best) ==
    IF s = <<>> THEN best
    ELSE IF best = NoUnit \/ key(Head(s)) < key(best)
         THEN MinByKey(Tail(s), key, Head(s))
         ELSE MinByKey(Tail(s), key, best)

get_blocking_unit(w, a, enemy) ==
    LET sort_key(uid) ==
            get_dist_to(w.units[uid], enemy.position)
            + (IF is_in_front(enemy, w.units[uid]) THEN 0 ELSE SIDE_RANGE_PENALTY)
    IN  MinByKey(get_neighbors(w, a, enemy.file, TRUE), sort_key, NoUnit)

(* fault seeding: a search that leaves the unit itself out *)
get_backwards_neighbor_without_self(w, a, ref) ==
    LET key(uid) == get_dist_to(w.units[uid], w.units[uid].init_pos)
        found == MinByKey(get_neighbors(w, a, w.units[ref].file, FALSE), key, NoUnit)
    IN  IF found = ref THEN NoUnit ELSE found

get_backwards_neighbor(w, a, ref) ==
    LET key(uid) == get_dist_to(w.units[uid], w.units[uid].init_pos)
        found == MinByKey(get_neighbors(w, a, w.units[ref].file, TRUE), key, NoUnit)
    IN  IF found = ref THEN NoUnit ELSE found

(* min() of an empty generator raises ValueError: NoSpeed *)
NoSpeed == -1

get_minimum_laggard_speed(w, a, uid) ==
    LET u == w.units[uid]
        dep == deployed_units(w, a)
        laggards == {i \in DOMAIN dep :
                        get_dist_to(w.units[dep[i]], w.units[dep[i]].init_pos)
                            <= get_dist_to(u, u.init_pos)}
    IN  IF laggards = {} THEN NoSpeed
        ELSE LET speeds == {get_eff_speed(w.units[dep[i]], landscape) : i \in laggards}
             IN  CHOOSE s \in speeds : \A t \in speeds : s <= t

get_cohesive_speed(w, a, uid, pos_target) ==
    LET u == w.units[uid]
    IN  IF moving_to_pos(u) /\ pos_target < u.position THEN get_eff_speed(u, landscape)
        ELSE IF moving_to_neg(u) /\ pos_target > u.position THEN get_eff_speed(u, landscape)
        ELSE get_minimum_laggard_speed(w, a, uid)

(* Army setters and alterers *)

RECURSIVE change_morale_seq(_, _, _)
change_morale_seq(us, s, change) ==
    IF s = <<>> THEN us
    ELSE change_morale_seq([us EXCEPT ![Head(s)].morale = @ + change], Tail(s), change)

change_all_units_morale(w, a, change) ==
    [w EXCEPT !.units = change_morale_seq(w.units, deployed_units(w, a) \o w.reserves[a], change)]

(* fault seeding: an army that leaves its unit where it is when a reserve *)
(* is deployed against it                                                *)
move_unit_unmoved(w, a, enemy) == w

move_unit_safely_away_from_enemy(w, a, enemy) ==
    IF enemy.file \in {w.file_units[a][i].file : i \in DOMAIN w.file_units[a]}
    THEN LET uid == DictGet(w.file_units[a], enemy.file)
             new == move_safely_away_from_pos(w.units[uid], enemy.position)
         IN  MarkMoved(SetUnit(w, uid, new), uid, moves_safely_away(w.units[uid], enemy.position))
    ELSE w

(* fault seeding: a deployment that takes the newest reserve, not the oldest *)
deploy_reserve_to_file_newest(w, a, file, ref_pos, other) ==
    IF w.reserves[a] # <<>>
    THEN LET n == Len(w.reserves[a])
             new_unit == w.reserves[a][n]
             w1 == [w EXCEPT !.reserves[a] = SubSeq(@, 1, n - 1)]
             w2 == MarkMoved(SetUnit(w1, new_unit,
                                     deploy_close_to(w1.units[new_unit], file, ref_pos)),
                             new_unit, TRUE)
             w3 == move_unit_safely_away_from_enemy(w2, other, w2.units[new_unit])
         IN  [w3 EXCEPT !.file_units[a] = DictSet(@, file, new_unit)]
    ELSE w

deploy_reserve_to_file(w, a, file, ref_pos, other) ==
    IF w.reserves[a] # <<>>
    THEN LET new_unit == Head(w.reserves[a])
             w1 == [w EXCEPT !.reserves[a] = Tail(@)]
             w2 == MarkMoved(SetUnit(w1, new_unit,
                                     deploy_close_to(w1.units[new_unit], file, ref_pos)),
                             new_unit, TRUE)
             w3 == move_unit_safely_away_from_enemy(w2, other, w2.units[new_unit])
         IN  [w3 EXCEPT !.file_units[a] = DictSet(@, file, new_unit)]
    ELSE w

(* fault seeding: a removal that leaves the unit in the file map unless a *)
(* reserve takes the file                                                *)
remove_unit_file_kept(w, a, uid, other) ==
    LET file == w.units[uid].file
    IN  IF ~is_file_active(w, a, file) THEN Raise(w, "KeyError")
        ELSE IF DictGet(w.file_units[a], file) # uid THEN Raise(w, "AssertionError")
        ELSE deploy_reserve_to_file([w EXCEPT !.removed[a] = Append(@, uid)],
                                    a, file, w.units[uid].position, other)

(* fault seeding: a removal that forgets to record the unit in removed *)
remove_unit_unrecorded(w, a, uid, other) ==
    LET file == w.units[uid].file
    IN  IF ~is_file_active(w, a, file) THEN Raise(w, "KeyError")
        ELSE IF DictGet(w.file_units[a], file) # uid THEN Raise(w, "AssertionError")
        ELSE deploy_reserve_to_file([w EXCEPT !.file_units[a] = DictDel(@, file)],
                                    a, file, w.units[uid].position, other)

remove_unit(w, a, uid, other) ==
    LET file == w.units[uid].file
    IN  IF ~is_file_active(w, a, file) THEN Raise(w, "KeyError")
        ELSE IF DictGet(w.file_units[a], file) # uid THEN Raise(w, "AssertionError")
        ELSE LET w1 == [w EXCEPT !.file_units[a] = DictDel(@, file),
                                 !.removed[a] = Append(@, uid)]
             IN  deploy_reserve_to_file(w1, a, file, w.units[uid].position, other)

(* fault seeding: a slide that moves the map entry and leaves the unit's own *)
(* file field as it was                                                     *)
slide_file_unit_file_kept(w, a, file) ==
    IF file = 0 \/ is_file_towards_centre_active(w, a, file) THEN Raise(w, "AssertionError")
    ELSE LET new_file == IF file < 0 THEN file + 1 ELSE file - 1
             uid == DictGet(w.file_units[a], file)
             d1 == DictSet(w.file_units[a], new_file, uid)
         IN  [w EXCEPT !.file_units[a] = DictDel(d1, file)]

(* fault seeding: a slide without the assertion, which takes over a file *)
(* that is already held                                                  *)
slide_file_unasserted(w, a, file) ==
    LET new_file == IF file < 0 THEN file + 1 ELSE file - 1
        uid == DictGet(w.file_units[a], file)
        d1 == DictSet(w.file_units[a], new_file, uid)
    IN  [w EXCEPT !.file_units[a] = DictDel(d1, file),
                  !.units[uid].file = new_file]

(* fault seeding: a slide that also ends the unit's pursuit *)
slide_file_pursuit_ended(w, a, file) ==
    IF file = 0 \/ is_file_towards_centre_active(w, a, file) THEN Raise(w, "AssertionError")
    ELSE LET new_file == IF file < 0 THEN file + 1 ELSE file - 1
             uid == DictGet(w.file_units[a], file)
             d1 == DictSet(w.file_units[a], new_file, uid)
         IN  [w EXCEPT !.file_units[a] = DictDel(d1, file),
                       !.units[uid].file = new_file,
                       !.units[uid].pursuing = FALSE]

slide_file_towards_centre(w, a, file) ==
    IF file = 0 \/ is_file_towards_centre_active(w, a, file) THEN Raise(w, "AssertionError")
    ELSE LET new_file == IF file < 0 THEN file + 1 ELSE file - 1
             uid == DictGet(w.file_units[a], file)
             d1 == DictSet(w.file_units[a], new_file, uid)
         IN  [w EXCEPT !.file_units[a] = DictDel(d1, file),
                       !.units[uid].file = new_file]

----------------------------------------------------------------------------
(* FightPairs.  _potentials and _assignments are dicts, kept as sequences  *)
(* of items in insertion order; a set of units is iterated, and popped, in *)
(* the order of the units' hashes (hash_order: unit -> rank).              *)

EmptyFightPairs ==
    [potentials |-> <<>>, assignments |-> <<>>,
     two_way_pairs |-> <<>>, one_way_pairs |-> <<>>, all_engaged |-> {}]

(* fault seeding: a reset that leaves the pair lists as they were *)
reset_pairs_kept(w) ==
    [w EXCEPT !.fight_pairs.potentials = <<>>, !.fight_pairs.assignments = <<>>,
              !.fight_pairs.all_engaged = {}]

reset(w) == [w EXCEPT !.fight_pairs = EmptyFightPairs]

RECURSIVE SetToSeq(_)
SetToSeq(S) ==
    IF S = {} THEN <<>>
    ELSE LET x == CHOOSE y \in S : \A z \in S : hash_order[y] <= hash_order[z]
         IN  <<x>> \o SetToSeq(S \ {x})

AssignHas(asg, uid) == \E i \in DOMAIN asg : asg[i].unit = uid
AssignGet(asg, uid) ==
    IF AssignHas(asg, uid) THEN asg[CHOOSE i \in DOMAIN asg : asg[i].unit = uid].target
    ELSE NoUnit

(* fault seeding: a target search that does not ask whether the target is *)
(* in range                                                               *)
get_valid_targets_any_range(w, file, uid, opposing) ==
    IF is_file_active(w, opposing, file)
    THEN {DictGet(w.file_units[opposing], file)}
    ELSE {}

get_valid_targets(w, file, uid, opposing) ==
    IF is_file_active(w, opposing, file)
    THEN LET target == DictGet(w.file_units[opposing], file)
         IN  IF is_in_range_of(w.units[uid], w.units[target]) THEN {target} ELSE {}
    ELSE {}

add_single_potentials(w, file, uid, opposing) ==
    LET targets == get_valid_targets(w, file, uid, opposing)
                   \cup get_valid_targets(w, file - 1, uid, opposing)
                   \cup get_valid_targets(w, file + 1, uid, opposing)
    IN  IF targets # {}
        THEN [w EXCEPT !.fight_pairs.potentials = Append(@, [unit |-> uid, targets |-> targets])]
        ELSE w

RECURSIVE add_army_potentials(_, _, _)
add_army_potentials(w, items, opposing) ==
    IF items = <<>> THEN w
    ELSE add_army_potentials(
            add_single_potentials(w, Head(items).file, Head(items).unit, opposing),
            Tail(items), opposing)

add_all_potentials(w) ==
    add_army_potentials(add_army_potentials(w, w.file_units[1], 2), w.file_units[2], 1)

assign_if_unique_target(w) ==
    LET pot == w.fight_pairs.potentials
        uniq(e) == Cardinality(e.targets) = 1
        chosen == SelectSeq(pot, uniq)
    IN  [w EXCEPT !.fight_pairs.assignments =
                      @ \o [i \in DOMAIN chosen |->
                              [unit |-> chosen[i].unit,
                               target |-> CHOOSE t \in chosen[i].targets : TRUE]],
                  !.fight_pairs.potentials = SelectSeq(pot, LAMBDA e : ~uniq(e))]

(* the tuple sort_key(unit, target) builds, True as 1 and False as 0 *)
Bool(b) == IF b THEN 1 ELSE 0

sort_key(w, att, tgt) ==
    LET unit == w.units[att]
        target == w.units[tgt]
        asg == w.fight_pairs.assignments
        frontal == is_in_front(unit, target)
        dist == get_dist_to(unit, target.position)
        melee == IF frontal THEN dist <= PosUnit + EPS
                 ELSE dist <= PosUnit - SIDE_RANGE_PENALTY + EPS
        attacker == AssignGet(asg, tgt) = att
        unassigned == ~AssignHas(asg, tgt)
    IN  <<Bool(frontal /\ melee), Bool(melee), Bool(frontal), Bool(attacker), Bool(unassigned),
          -dist, -att_range(unit), Abs(unit.file), Abs(target.file),
          unit.file, target.file, unit.position>>

(* tuple comparison: -1, 0, 1 *)
RECURSIVE CompareKeys(_, _)
CompareKeys(k1, k2) ==
    IF k1 = <<>> THEN 0
    ELSE IF Head(k1) < Head(k2) THEN -1
    ELSE IF Head(k1) > Head(k2) THEN 1
    ELSE CompareKeys(Tail(k1), Tail(k2))

(* the (attacker, target) candidates in the order the generator yields them *)
RECURSIVE Candidates(_)
Candidates(pot) ==
    IF pot = <<>> THEN <<>>
    ELSE LET ts == SetToSeq(Head(pot).targets)
         IN  [i \in DOMAIN ts |-> [unit |-> Head(pot).unit, target |-> ts[i]]]
             \o Candidates(Tail(pot))

(* max() over (sort_key, att, x): an item is compared with the best so far; with  *)
(* equal sort keys the comparison reaches the Unit objects and raises TypeError.  *)
RECURSIVE MaxCandidate(_, _, _)
MaxCandidate(w, cands, best) ==
    IF cands = <<>> THEN best
    ELSE LET c == Head(cands)
             cmp == CompareKeys(sort_key(w, c.unit, c.target),
                                sort_key(w, best.unit, best.target))
         IN  IF cmp = 0 THEN [unit |-> NoUnit, target |-> NoUnit]
             ELSE MaxCandidate(w, Tail(cands), IF cmp > 0 THEN c ELSE best)

assign_best_remaining(w) ==
    LET cands == Candidates(w.fight_pairs.potentials)
        best == MaxCandidate(w, Tail(cands), Head(cands))
    IN  IF best.unit = NoUnit THEN Raise(w, "TypeError")
        ELSE [w EXCEPT !.fight_pairs.assignments = Append(@, best),
                       !.fight_pairs.potentials = SelectSeq(@, LAMBDA e : e.unit # best.unit)]

RECURSIVE assign_remaining_loop(_)
assign_remaining_loop(w) ==
    IF w.fight_pairs.potentials = <<>> \/ w.err # "none" THEN w
    ELSE assign_remaining_loop(assign_best_remaining(w))

(* fault seeding: a pairing loop that leaves the partner of a two-way pair in *)
(* the remaining set                                                         *)
RECURSIVE match_loop_partner_kept(_, _)
match_loop_partner_kept(w, remaining) ==
    IF remaining = {} THEN w
    ELSE LET asg == w.fight_pairs.assignments
             unit_A == Head(SetToSeq(remaining))
             unit_B == AssignGet(asg, unit_A)
         IN  IF AssignGet(asg, unit_B) = unit_A
             THEN match_loop_partner_kept(
                     [w EXCEPT !.fight_pairs.two_way_pairs = Append(@, <<unit_A, unit_B>>),
                               !.fight_pairs.all_engaged = @ \cup {unit_A, unit_B}],
                     remaining \ {unit_A})
             ELSE match_loop_partner_kept(
                     [w EXCEPT !.fight_pairs.one_way_pairs = Append(@, <<unit_A, unit_B>>),
                               !.fight_pairs.all_engaged = @ \cup {unit_A, unit_B}],
                     remaining \ {unit_A})

RECURSIVE match_loop(_, _)
match_loop(w, remaining) ==
    IF remaining = {} THEN w
    ELSE LET asg == w.fight_pairs.assignments
             unit_A == Head(SetToSeq(remaining))
             unit_B == AssignGet(asg, unit_A)
         IN  IF AssignGet(asg, unit_B) = unit_A
             THEN match_loop([w EXCEPT !.fight_pairs.two_way_pairs = Append(@, <<unit_A, unit_B>>),
                                       !.fight_pairs.all_engaged = @ \cup {unit_A, unit_B}],
                             remaining \ {unit_A, unit_B})
             ELSE match_loop([w EXCEPT !.fight_pairs.one_way_pairs = Append(@, <<unit_A, unit_B>>),
                                       !.fight_pairs.all_engaged = @ \cup {unit_A, unit_B}],
                             remaining \ {unit_A})

(* fault seeding: a pairing that records only the popped unit as engaged *)
match_into_pairs_targets_unrecorded(w) ==
    LET r == match_loop(w, {w.fight_pairs.assignments[i].unit :
                               i \in DOMAIN w.fight_pairs.assignments})
        pairs == r.fight_pairs.two_way_pairs \o r.fight_pairs.one_way_pairs
    IN  [r EXCEPT !.fight_pairs.all_engaged = {pairs[i][1] : i \in DOMAIN pairs}]

match_into_pairs(w) ==
    match_loop(w, {w.fight_pairs.assignments[i].unit : i \in DOMAIN w.fight_pairs.assignments})

assign_all(w) ==
    LET w1 == assign_remaining_loop(assign_if_unique_target(add_all_potentials(reset(w))))
    IN  IF w1.err # "none" THEN w1 ELSE match_into_pairs(w1)

----------------------------------------------------------------------------
(* Battle: utilities                                                       *)

iter_all_deployed(w) == deployed_units(w, 1) \o deployed_units(w, 2)

(* the army whose file_units holds the unit under the unit's own file; NoArmy *)
(* where the code raises ValueError                                           *)
NoArmy == 0

(* fault seeding: a lookup that knows the first army only *)
get_army_deployed_in_first_army(w, uid) ==
    LET file == w.units[uid].file
    IN  IF is_file_active(w, 1, file) /\ DictGet(w.file_units[1], file) = uid THEN 1
        ELSE NoArmy

get_army_deployed_in(w, uid) ==
    LET file == w.units[uid].file
    IN  IF is_file_active(w, 1, file) /\ DictGet(w.file_units[1], file) = uid THEN 1
        ELSE IF is_file_active(w, 2, file) /\ DictGet(w.file_units[2], file) = uid THEN 2
        ELSE NoArmy

(* the opposing army; NoArmy stands for the ValueError raised for an army *)
(* that is neither army_1 nor army_2                                     *)
get_other_army(a) ==
    IF a = 1 THEN 2
    ELSE IF a = 2 THEN 1
    ELSE NoArmy

reset_unit_stance(w, uid) ==
    [w EXCEPT !.units[uid].stance = army_stance[get_army_deployed_in(w, uid)]]

RECURSIVE call_forward_seq(_, _, _)
call_forward_seq(w, uid, ns) ==
    IF ns = <<>> THEN w
    ELSE LET n == Head(ns)
             w1 == IF n \notin w.fight_pairs.all_engaged
                      /\ speed(w.units[n]) >= speed(w.units[uid])
                   THEN [w EXCEPT !.units[n].stance = Min(@, NEUT)]
                   ELSE w
         IN  call_forward_seq(w1, uid, Tail(ns))

(* fault seeding: a call that also pulls the slower neighbours forward *)
call_neighbors_forward_any_speed(w, uid) ==
    LET ns == get_neighbors(w, get_army_deployed_in(w, uid), w.units[uid].file, FALSE)
        called == {ns[i] : i \in DOMAIN ns} \ w.fight_pairs.all_engaged
    IN  [w EXCEPT !.units = [n \in DOMAIN @ |->
                               IF n \in called THEN [@[n] EXCEPT !.stance = Min(@, NEUT)]
                               ELSE @[n]]]

call_neighbors_forward(w, uid) ==
    call_forward_seq(w, uid,
        get_neighbors(w, get_army_deployed_in(w, uid), w.units[uid].file, FALSE))

(* fault seeding: an end test that overlooks the halted units *)
is_battle_ended_halt_unseen(w, t) ==
    \/ defeated(w, 1)
    \/ defeated(w, 2)
    \/ t > TURN_CAP

is_battle_ended(w, t) ==
    \/ defeated(w, 1)
    \/ defeated(w, 2)
    \/ \A i \in DOMAIN iter_all_deployed(w) : w.units[iter_all_deployed(w)[i]].halted
    \/ t > TURN_CAP

(* fault seeding: the two wins exchanged *)
decide_winner_exchanged(w) ==
    IF defeated(w, 1) /\ defeated(w, 2) THEN BOTH_LOST
    ELSE IF ~defeated(w, 1) /\ defeated(w, 2) THEN WIN_2
    ELSE IF defeated(w, 1) /\ ~defeated(w, 2) THEN WIN_1
    ELSE STALEMATE

decide_winner(w) ==
    IF defeated(w, 1) /\ defeated(w, 2) THEN BOTH_LOST
    ELSE IF ~defeated(w, 1) /\ defeated(w, 2) THEN WIN_1
    ELSE IF defeated(w, 1) /\ ~defeated(w, 2) THEN WIN_2
    ELSE STALEMATE

----------------------------------------------------------------------------
(* Battle: effective morale and power (the unit is deployed)              *)

morale_from_mean_clash_distance(mean5) ==
    IF mean5 > 5 * (PosUnit \div 2) THEN FILE_SUPPORTED
    ELSE IF mean5 < -5 * (PosUnit \div 2) THEN FILE_VULNERABLE
    ELSE FILE_MEAN + (mean5 * FILE_DIFF) \div (5 * PosUnit)

(* mean_dist = (weight*ene_dist + own_dist) / (1+weight), weight = 1.5; mean5 is *)
(* 5 * mean_dist                                                                 *)
morale_from_contested_file(w, uid, file, army, enemy) ==
    LET u == w.units[uid]
        ene_dist == get_signed_distance_to_unit(u, w.units[DictGet(w.file_units[enemy], file)])
        own_dist == IF is_file_active(w, army, file)
                    THEN Max(-RESERVE_DIST_BEHIND,
                             get_signed_distance_to_unit(u, w.units[DictGet(w.file_units[army], file)]))
                    ELSE -RESERVE_DIST_BEHIND
        mean5 == 3 * ene_dist + 2 * own_dist
        morale == morale_from_mean_clash_distance(mean5)
    IN  IF is_file_active(w, army, file) THEN morale ELSE Min(0, morale)

get_morale_from_supporting_file(w, uid, file) ==
    LET army == get_army_deployed_in(w, uid)
        enemy == get_other_army(army)
    IN  IF is_file_active(w, enemy, file) THEN morale_from_contested_file(w, uid, file, army, enemy)
        ELSE IF is_file_active(w, army, file) THEN FILE_SUPPORTED
        ELSE FILE_EMPTY

get_unit_eff_morale(w, uid) ==
    Max(0, w.units[uid].morale
           + get_morale_from_supporting_file(w, uid, w.units[uid].file + 1)
           + get_morale_from_supporting_file(w, uid, w.units[uid].file - 1))

(* m ** (1 + rigidity) in thousandths, for the whole-number rigidities of UnitType *)
RECURSIVE PowMilli(_, _)
PowMilli(m, n) == IF n = 0 THEN Milli ELSE (m * PowMilli(m, n - 1)) \div Milli

get_unit_power_from_morale(w, uid) ==
    -((LOW_MORALE_POWER * PowUnit
        * (Milli - PowMilli(get_unit_eff_morale(w, uid), 1 + rigidity(w.units[uid])))) \div Milli)

get_unit_eff_power(w, uid) ==
    power(w.units[uid])
    + get_power_from_terrain(w.units[uid], landscape)
    + reserve_power(w, get_army_deployed_in(w, uid))
    + get_unit_power_from_morale(w, uid)

(* fault seeding: a balance that counts the first unit as at full morale *)
compute_fight_balance_attacker_fresh(w, unit_A, unit_B) ==
    LET power_dif == get_unit_eff_power(w, unit_A) - get_unit_power_from_morale(w, unit_A)
                     - get_unit_eff_power(w, unit_B)
    IN  Exp2((power_dif * Milli) \div (2 * POWER_SCALE * PowUnit))

(* 2.0 ** (power_dif / (2*POWER_SCALE)), in thousandths *)
compute_fight_balance(w, unit_A, unit_B) ==
    LET power_dif == get_unit_eff_power(w, unit_A) - get_unit_eff_power(w, unit_B)
    IN  Exp2((power_dif * Milli) \div (2 * POWER_SCALE * PowUnit))

Inverse(balance) == (Milli * Milli) \div balance

(* fault seeding: casualties with the sign of the exposure reversed, so *)
(* that a unit in the open gains morale                                *)
inflict_casualties_reversed(w, uid, balance) ==
    LET cover == landscape_get_mean_cover(landscape, w.units[uid].file, w.units[uid].position) - Milli
    IN  [w EXCEPT !.units[uid].morale = @ - (cover * balance) \div (Milli * TicksPerTime)]

inflict_casualties(w, uid, balance) ==
    LET cover == Milli - landscape_get_mean_cover(landscape, w.units[uid].file, w.units[uid].position)
    IN  [w EXCEPT !.units[uid].morale = @ - (cover * balance) \div (Milli * TicksPerTime)]

(* fault seeding: a winner that follows the loser whether or not the     *)
(* retreat broke the contact                                             *)
push_from_winner_always_follows(w, winner, loser, balance) ==
    LET loser_speed_scale == Min(Milli, (balance - Milli) \div (1 + rigidity(w.units[loser])))
        sp == Min(get_eff_speed(w.units[winner], landscape),
                  (get_eff_speed(w.units[loser], landscape) * loser_speed_scale) \div Milli)
        dist == StepOf(sp) * (IF moving_to_pos(w.units[winner]) THEN 1 ELSE -1)
        w1 == MarkMoved(SetUnit(w, loser, move_by(w.units[loser], dist)), loser, TRUE)
    IN  MarkMoved(SetUnit(w1, winner, move_by(w1.units[winner], dist)), winner, TRUE)

push_from_winner(w, winner, loser, balance) ==
    LET loser_speed_scale == Min(Milli, (balance - Milli) \div (1 + rigidity(w.units[loser])))
        sp == Min(get_eff_speed(w.units[winner], landscape),
                  (get_eff_speed(w.units[loser], landscape) * loser_speed_scale) \div Milli)
        dist == StepOf(sp) * (IF moving_to_pos(w.units[winner]) THEN 1 ELSE -1)
        w1 == MarkMoved(SetUnit(w, loser, move_by(w.units[loser], dist)), loser, TRUE)
    IN  IF ~is_in_range_of(w1.units[winner], w1.units[loser])
           \/ ~is_in_range_of(w1.units[loser], w1.units[winner])
        THEN MarkMoved(SetUnit(w1, winner, move_by(w1.units[winner], dist)), winner, TRUE)
        ELSE w1

push_from_fight(w, unit_A, unit_B, balance) ==
    IF balance > Milli THEN push_from_winner(w, unit_A, unit_B, balance)
    ELSE IF balance < Milli THEN push_from_winner(w, unit_B, unit_A, Inverse(balance))
    ELSE w

fight_two_way(w, unit_A, unit_B) ==
    IF get_army_deployed_in(w, unit_A) = NoArmy \/ get_army_deployed_in(w, unit_B) = NoArmy
    THEN Raise(w, "ValueError")
    ELSE LET balance == compute_fight_balance(w, unit_A, unit_B)
             w1 == inflict_casualties(w, unit_A, Inverse(balance))
             w2 == inflict_casualties(w1, unit_B, balance)
         IN  push_from_fight(w2, unit_A, unit_B, balance)

fight_one_way(w, unit_A, unit_B) ==
    IF get_army_deployed_in(w, unit_A) = NoArmy \/ get_army_deployed_in(w, unit_B) = NoArmy
    THEN Raise(w, "ValueError")
    ELSE LET balance == compute_fight_balance(w, unit_A, unit_B)
             w1 == inflict_casualties(w, unit_B, balance)
             w2 == [w1 EXCEPT !.units[unit_B].stance = AGGR]
         IN  call_neighbors_forward(w2, unit_B)

----------------------------------------------------------------------------
(* Battle: tidy                                                            *)

RECURSIVE pursue_loop(_, _)
pursue_loop(w, us) ==
    IF us = <<>> \/ w.err # "none" THEN w
    ELSE LET uid == Head(us)
             u == w.units[uid]
             army == get_army_deployed_in(w, uid)
             w1 == IF at_end(u) /\ ~u.pursuing
                   THEN IF army = NoArmy THEN Raise(w, "ValueError")
                        ELSE change_all_units_morale([w EXCEPT !.penalised = Append(@, uid)],
                                                     get_other_army(army), PURSUE_MORALE)
                   ELSE w
         IN  pursue_loop(w1, Tail(us))

change_morale_from_first_pursue(w) == pursue_loop(w, iter_all_deployed(w))

RECURSIVE reduce_loop(_, _)
reduce_loop(w, us) ==
    IF us = <<>> \/ w.err # "none" THEN w
    ELSE LET uid == Head(us)
             u == w.units[uid]
             army == get_army_deployed_in(w, uid)
             w1 == IF u.pursuing /\ u.file # 0
                   THEN IF army = NoArmy THEN Raise(w, "ValueError")
                        ELSE IF get_blocking_unit(w, get_other_army(army), u) = NoUnit
                                /\ ~is_file_towards_centre_active(w, army, u.file)
                             THEN slide_file_towards_centre(w, army, u.file)
                             ELSE w
                   ELSE w
         IN  reduce_loop(w1, Tail(us))

reduce_files(w) == reduce_loop(w, iter_all_deployed(w))

(* the body of update_status's loop, for one unit of its snapshot *)
update_status(w, uid) ==
    IF get_army_deployed_in(w, uid) = NoArmy THEN Raise(w, "ValueError")
    ELSE LET w1 == reset_unit_stance(w, uid)
             u == w1.units[uid]
             army == get_army_deployed_in(w1, uid)
         IN  IF get_unit_eff_morale(w1, uid) <= 0 \/ at_home(u)
             THEN remove_unit(w1, army, uid, get_other_army(army))
             ELSE IF at_end(u) /\ get_unit_eff_morale(w1, uid) > 0
             THEN [w1 EXCEPT !.units[uid].pursuing = TRUE]
             ELSE [w1 EXCEPT !.units[uid].pursuing = FALSE]

----------------------------------------------------------------------------
(* Battle: moving                                                          *)

move_key(u) ==
    <<u.stance, -speed(u), att_range(u), Abs(u.file), -Abs(u.position), u.file, u.position>>

(* sorted(): a stable sort by key *)
RECURSIVE InsertByKey(_, _, _)
InsertByKey(w, sorted, uid) ==
    IF sorted = <<>> THEN <<uid>>
    ELSE IF CompareKeys(move_key(w.units[uid]), move_key(w.units[Head(sorted)])) < 0
         THEN <<uid>> \o sorted
         ELSE <<Head(sorted)>> \o InsertByKey(w, Tail(sorted), uid)

RECURSIVE SortByKey(_, _, _)
SortByKey(w, us, sorted) ==
    IF us = <<>> THEN sorted
    ELSE SortByKey(w, Tail(us), InsertByKey(w, sorted, Head(us)))

get_move_order(w) == SortByKey(w, iter_all_deployed(w), <<>>)

get_unit_pos_desire(w, uid) ==
    LET cover == landscape_get_mean_cover(landscape, w.units[uid].file, w.units[uid].position)
    IN  get_unit_eff_power(w, uid) + (10 * PowUnit * cover) \div Milli

(* confirm_move; the gradient is in thousandths of power per position, kept *)
(* within +-(GradCap): beyond the halt threshold only its sign matters      *)
GradCap == HALT_POWER_GRADIENT * Milli + 1
DiffCap == 1000 * PowUnit

(* fault seeding: a confirmation that does not scale the gradient by the lag *)
confirm_move_unscaled(u, gradient, old_pos, old_lag, new_lag) ==
    IF get_dist_to(u, u.init_pos) < MIN_DEPLOY_DIST THEN [u EXCEPT !.halted = FALSE]
    ELSE IF old_lag < PosUnit /\ PosUnit <= new_lag
         THEN [u EXCEPT !.position = old_pos, !.halted = TRUE]
    ELSE IF Max(-GradCap, Min(gradient, GradCap)) > HALT_POWER_GRADIENT * Milli
         THEN [u EXCEPT !.position = old_pos, !.halted = TRUE]
         ELSE IF u.position # old_pos THEN [u EXCEPT !.halted = FALSE]
         ELSE u

confirm_move(u, gradient, old_pos, old_lag, new_lag) ==
    IF get_dist_to(u, u.init_pos) < MIN_DEPLOY_DIST THEN [u EXCEPT !.halted = FALSE]
    ELSE IF old_lag < PosUnit /\ PosUnit <= new_lag
         THEN [u EXCEPT !.position = old_pos, !.halted = TRUE]
    ELSE LET lag == Min(new_lag, PosUnit - EPS)
             g0 == Max(-GradCap, Min(gradient, GradCap))
             g == IF old_lag < lag THEN (g0 * PosUnit) \div (PosUnit - lag) ELSE g0
         IN  IF g > HALT_POWER_GRADIENT * Milli
             THEN [u EXCEPT !.position = old_pos, !.halted = TRUE]
             ELSE IF u.position # old_pos THEN [u EXCEPT !.halted = FALSE]
             ELSE u

RECURSIVE Halve(_, _)
Halve(g, n) == IF n = 0 THEN g ELSE Halve(g \div 2, n - 1)

move_towards_haltingly(w, uid, target, sp) ==
    LET army == get_army_deployed_in(w, uid)
        backwards_unit == get_backwards_neighbor(w, army, uid)
        old == w.units[uid]
        old_pos == old.position
        old_desire == get_unit_pos_desire(w, uid)
        old_lag == IF backwards_unit # NoUnit
                   THEN get_dist_to(old, w.units[backwards_unit].position) ELSE 0
        w1 == MarkMoved(SetUnit(w, uid, move_towards(old, target, sp)), uid,
                        moves_towards(old, target))
        new == w1.units[uid]
        new_desire == get_unit_pos_desire(w1, uid)
        new_lag == IF backwards_unit # NoUnit
                   THEN get_dist_to(new, w1.units[backwards_unit].position) ELSE 0
        ns == get_neighbors(w1, army, new.file, FALSE)
        engaged == Cardinality({i \in DOMAIN ns : ns[i] \in w1.fight_pairs.all_engaged})
        diff == Max(-DiffCap, Min(old_desire - new_desire, DiffCap))
        power_grad == Halve((diff * (Milli \div PowUnit) * PosUnit)
                                \div get_dist_to(new, old_pos), engaged)
    IN  IF get_dist_to(new, old_pos) = 0 THEN Raise(w1, "ZeroDivisionError")
        ELSE MarkMoved(SetUnit(w1, uid, confirm_move(new, power_grad, old_pos, old_lag, new_lag)),
                       uid, TRUE)

(* fault seeding: neutral units that move haltingly, as defensive ones do *)
move_unit_towards_neutral_haltingly(w, uid, target) ==
    LET u == w.units[uid]
        quick == get_eff_speed(u, landscape)
        slow == get_cohesive_speed(w, get_army_deployed_in(w, uid), uid, target)
    IN  IF slow = NoSpeed THEN Raise(w, "ValueError")
        ELSE IF u.stance = AGGR
        THEN MarkMoved(SetUnit(w, uid, move_towards(u, target, quick)), uid,
                       moves_towards(u, target))
        ELSE move_towards_haltingly(w, uid, target, slow)

move_unit_towards_in_stance(w, uid, target) ==
    LET u == w.units[uid]
        quick == get_eff_speed(u, landscape)
        slow == get_cohesive_speed(w, get_army_deployed_in(w, uid), uid, target)
    IN  IF slow = NoSpeed THEN Raise(w, "ValueError")
        ELSE IF u.stance = AGGR
        THEN MarkMoved(SetUnit(w, uid, move_towards(u, target, quick)), uid,
                       moves_towards(u, target))
        ELSE IF u.stance = NEUT
        THEN MarkMoved(SetUnit(w, uid,
                         move_towards(u, target,
                                      IF is_charge_range_of(u, target) THEN quick ELSE slow)),
                       uid, moves_towards(u, target))
        ELSE IF u.stance = DEFN THEN move_towards_haltingly(w, uid, target, slow)
        ELSE Raise(w, "ValueError")

(* the body of move's loop, for one unit of the move order *)
move(w, uid) ==
    LET u == w.units[uid]
        army == get_army_deployed_in(w, uid)
        enemy == get_blocking_unit(w, get_other_army(army), u)
    IN  IF army = NoArmy THEN Raise(w, "ValueError")
        ELSE IF enemy = NoUnit
        THEN MarkMoved(SetUnit(w, uid, move_towards(u, -u.init_pos, get_eff_speed(u, landscape))),
                       uid, moves_towards(u, -u.init_pos))
        ELSE IF ~is_in_range_of(u, w.units[enemy])
        THEN move_unit_towards_in_stance(w, uid,
                 get_position_to_attack_target(u, w.units[enemy]))
        ELSE w

----------------------------------------------------------------------------
(* Construction: two armies populated by add / add_reserves, a landscape,  *)
(* and Battle.__attrs_post_init__                                          *)

MaxFile == 1
MaxArmy == 2
MaxReserves == 2
MaxDeployed == 4

Files == (-MaxFile)..MaxFile
Stances == {AGGR, NEUT, DEFN}

Landscapes ==
    {[cover |-> 0, roughness |-> 0, slope |-> 0],
     [cover |-> 0, roughness |-> 0, slope |-> 2],
     [cover |-> Milli, roughness |-> 0, slope |-> 0]}

(* an army as built by add (file -> type) and add_reserves (list of types) *)
RECURSIVE SeqsUpTo(_, _)
SeqsUpTo(S, n) ==
    IF n = 0 THEN {<<>>}
    ELSE SeqsUpTo(S, n - 1) \cup {Append(q, x) : q \in SeqsUpTo(S, n - 1), x \in S}

(* the unit types an army draws from: both field pikes, army 1 also archers, *)
(* army 2 also horse; reserves are pikes                                    *)
ArmyTypes(a) == IF a = 1 THEN {"pike", "archer"} ELSE {"pike", "horse"}
ReserveTypes == {"pike"}

Rosters(a) ==
    {r \in [dep : UNION {[F -> ArmyTypes(a)] : F \in SUBSET Files},
            res : SeqsUpTo(ReserveTypes, MaxReserves)] :
        Cardinality(DOMAIN r.dep) <= MaxArmy}

RosterSize(r) == Cardinality(DOMAIN r.dep) + Len(r.res)

(* dict(sorted(file_units.items())) *)
RECURSIVE SortedFiles(_)
SortedFiles(F) ==
    IF F = {} THEN <<>>
    ELSE LET f == CHOOSE x \in F : \A y \in F : x <= y
         IN  <<f>> \o SortedFiles(F \ {f})

UnitId(a, k) == 10 * a + k

RosterFileUnits(a, r) ==
    LET fs == SortedFiles(DOMAIN r.dep)
    IN  [i \in DOMAIN fs |-> [file |-> fs[i], unit |-> UnitId(a, i)]]

RosterReserves(a, r) ==
    [i \in DOMAIN r.res |-> UnitId(a, Cardinality(DOMAIN r.dep) + i)]

RosterIds(a, r) == {UnitId(a, k) : k \in 1..RosterSize(r)}

get_army_reach(r) ==
    LET reach == {UnitType(r.dep[f]).att_range + 2 * UnitType(r.dep[f]).speed : f \in DOMAIN r.dep}
    IN  1 + (IF reach = {} THEN 3 ELSE CHOOSE x \in reach : \A y \in reach : x >= y)

NewUnit(a, r, k, stance, init_pos) ==
    LET fs == SortedFiles(DOMAIN r.dep)
        n == Len(fs)
        u == [unit_type |-> IF k <= n THEN r.dep[fs[k]] ELSE r.res[k - n],
              stance |-> stance,
              file |-> IF k <= n THEN fs[k] ELSE 0,
              init_pos |-> 0, position |-> 0, morale |-> Milli,
              halted |-> FALSE, pursuing |-> FALSE]
    IN  unit_set_up(u, init_pos)

(* the orders in which a set of units may be iterated (the units' hashes) *)
HashOrders(ids) ==
    {[u \in ids |-> u], [u \in ids |-> -u]}

(* the battles explored: at most MaxDeployed units deployed, both armies      *)
(* together; reserves stand behind one side, which deploys a single unit      *)
(* against a single unit, or pikes against more pikes with a full reserve     *)
(* queue (so that reserve after reserve is deployed); hilly or covered ground *)
(* (no casualties) only for a duel on file 0; two defensive armies field a    *)
(* third unit only when all are pikes (those battles run to the turn cap);    *)
(* the field is full (MaxDeployed units) only between two aggressive armies   *)
AllPikes(r) == \A f \in DOMAIN r.dep : r.dep[f] = "pike"

ReservesInScope(r, other) ==
    r.res # <<>> =>
        /\ Cardinality(DOMAIN r.dep) = 1
        /\ other.res = <<>>
        /\ Cardinality(DOMAIN other.dep) >= 1
        /\ Cardinality(DOMAIN other.dep) > 1 =>
              Len(r.res) = MaxReserves /\ AllPikes(r) /\ AllPikes(other)

InScope(l, r1, r2, s1, s2) ==
    /\ Cardinality(DOMAIN r1.dep) + Cardinality(DOMAIN r2.dep) <= MaxDeployed
    /\ Cardinality(DOMAIN r1.dep) + Cardinality(DOMAIN r2.dep) = MaxDeployed =>
          s1 = AGGR /\ s2 = AGGR
    /\ ReservesInScope(r1, r2)
    /\ ReservesInScope(r2, r1)
    /\ (l.cover # 0 \/ l.slope # 0) =>
          /\ DOMAIN r1.dep = {0} /\ DOMAIN r2.dep = {0}
          /\ r1.res = <<>> /\ r2.res = <<>>
    /\ l.cover # 0 => r1.dep[0] = "pike" /\ r2.dep[0] = "pike" /\ s1 = AGGR /\ s2 = AGGR
    /\ (s1 = DEFN /\ s2 = DEFN /\ RosterSize(r1) + RosterSize(r2) > 2) =>
          AllPikes(r1) /\ AllPikes(r2)

(* the second hash order only between armies of the same stance that are not *)
(* both defensive with a third unit                                          *)
HashInScope(r1, r2, s1, s2, h) ==
    (s1 # s2 \/ (s1 = DEFN /\ RosterSize(r1) + RosterSize(r2) > 2)) =>
        \A u \in DOMAIN h : h[u] = u

World ==
    [units |-> units, file_units |-> file_units, reserves |-> reserves,
     removed |-> removed, fight_pairs |-> fight_pairs, err |-> err, moved |-> moved,
     penalised |-> penalised]

(* the state after Battle(army_1, army_2, landscape) was constructed from *)
(* the rosters r1, r2 with the stances s1, s2                            *)
post_init(l, r1, r2, s1, s2) ==
    /\ LET init_pos == Max(Max(get_army_reach(r1), get_army_reach(r2)), 5) * PosUnit
           ids == RosterIds(1, r1) \cup RosterIds(2, r2)
       IN  /\ units = [u \in ids |->
                        IF u \in RosterIds(1, r1)
                        THEN NewUnit(1, r1, u - 10, s1, -init_pos)
                        ELSE NewUnit(2, r2, u - 20, s2, init_pos)]
           /\ hash_order \in HashOrders(ids)
           /\ HashInScope(r1, r2, s1, s2, hash_order)
    /\ file_units = <<RosterFileUnits(1, r1), RosterFileUnits(2, r2)>>
    /\ reserves = <<RosterReserves(1, r1), RosterReserves(2, r2)>>
    /\ removed = <<<<>>, <<>>>>
    /\ fight_pairs = EmptyFightPairs
    /\ army_stance = <<s1, s2>>
    /\ landscape = l
    /\ turns = 0
    /\ pc = "loop"
    /\ todo = <<>>
    /\ err = "none"
    /\ outcome = -1
    /\ moved = {}
    /\ penalised = <<>>

Init ==
    \E l \in Landscapes, r1 \in Rosters(1), r2 \in Rosters(2), s1 \in Stances, s2 \in Stances :
        /\ InScope(l, r1, r2, s1, s2)
        /\ post_init(l, r1, r2, s1, s2)

(* battles on a wider field: a centre unit and a flank unit against a line *)
(* of three that reaches one file further out, a horse at its outer end;   *)
(* pikes and horse on both sides, flat ground, no reserves                 *)
WideTypes == {"pike", "horse"}

WideRosters(a) ==
    IF a = 1
    THEN {[dep |-> (0 :> "pike" @@ f :> t), res |-> <<>>] :
             f \in {-MaxFile, MaxFile}, t \in WideTypes}
    ELSE {[dep |-> (0 :> "pike" @@ (s * MaxFile) :> t @@ (s * (MaxFile + 1)) :> "horse"),
           res |-> <<>>] : s \in {-1, 1}, t \in WideTypes}

InitWide ==
    \E r1 \in WideRosters(1), r2 \in WideRosters(2), s1 \in Stances, s2 \in Stances :
        post_init([cover |-> 0, roughness |-> 0, slope |-> 0], r1, r2, s1, s2)

----------------------------------------------------------------------------
(* Battle.do: the turn loop, one action per step                          *)

Static == <<army_stance, landscape, hash_order>>

(* store the objects of w; an exception aborts the run *)
Commit(w, next_pc, next_todo) ==
    /\ units' = w.units
    /\ file_units' = w.file_units
    /\ reserves' = w.reserves
    /\ removed' = w.removed
    /\ fight_pairs' = w.fight_pairs
    /\ err' = w.err
    /\ moved' = w.moved
    /\ penalised' = w.penalised
    /\ pc' = IF w.err = "none" THEN next_pc ELSE "crashed"
    /\ todo' = IF w.err = "none" THEN next_todo ELSE <<>>
    /\ UNCHANGED <<Static, outcome>>

(* where the turn goes on after the fights of a phase are done *)
AfterOneWay(w) ==
    IF get_move_order(w) # <<>> THEN [pc |-> "move", todo |-> get_move_order(w)]
    ELSE [pc |-> "loop", todo |-> <<>>]

AfterTwoWay(w) ==
    IF w.fight_pairs.one_way_pairs # <<>>
    THEN [pc |-> "one_way", todo |-> w.fight_pairs.one_way_pairs]
    ELSE AfterOneWay(w)

(* fault seeding: a fight that resolves the one-way pairs and leaves out the *)
(* two-way pairs when both kinds were made                                  *)
AfterAssign_one_way_only(w) ==
    IF w.fight_pairs.one_way_pairs # <<>>
    THEN [pc |-> "one_way", todo |-> w.fight_pairs.one_way_pairs]
    ELSE IF w.fight_pairs.two_way_pairs # <<>>
    THEN [pc |-> "two_way", todo |-> w.fight_pairs.two_way_pairs]
    ELSE AfterOneWay(w)

AfterAssign(w) ==
    IF w.fight_pairs.two_way_pairs # <<>>
    THEN [pc |-> "two_way", todo |-> w.fight_pairs.two_way_pairs]
    ELSE AfterTwoWay(w)

AfterStatus(w) == [pc |-> "fight", todo |-> <<>>]

StartTurn ==
    /\ pc = "loop"
    /\ ~is_battle_ended(World, turns)
    /\ turns' = turns + 1
    /\ pc' = "tidy"
    /\ UNCHANGED <<units, file_units, reserves, removed, fight_pairs, Static, todo, err,
                   outcome, moved, penalised>>

Return ==
    /\ pc = "loop"
    /\ is_battle_ended(World, turns)
    /\ outcome' = decide_winner(World)
    /\ pc' = "done"
    /\ UNCHANGED <<units, file_units, reserves, removed, fight_pairs, Static, turns, todo, err,
                   moved, penalised>>

TidyPursue ==
    /\ pc = "tidy"
    /\ Commit(change_morale_from_first_pursue(World), "reduce", <<>>)
    /\ UNCHANGED turns

TidyReduce ==
    /\ pc = "reduce"
    /\ LET w == reduce_files(World)
       IN  IF iter_all_deployed(w) # <<>>
           THEN Commit(w, "status", iter_all_deployed(w))
           ELSE Commit(w, AfterStatus(w).pc, AfterStatus(w).todo)
    /\ UNCHANGED turns

TidyStatus ==
    /\ pc = "status"
    /\ LET w == update_status(World, Head(todo))
       IN  IF Tail(todo) # <<>> THEN Commit(w, "status", Tail(todo))
           ELSE Commit(w, AfterStatus(w).pc, AfterStatus(w).todo)
    /\ UNCHANGED turns

FightAssign ==
    /\ pc = "fight"
    /\ LET w == assign_all(World)
       IN  Commit(w, AfterAssign(w).pc, AfterAssign(w).todo)
    /\ UNCHANGED turns

FightTwoWay ==
    /\ pc = "two_way"
    /\ LET w == fight_two_way(World, Head(todo)[1], Head(todo)[2])
       IN  IF Tail(todo) # <<>> THEN Commit(w, "two_way", Tail(todo))
           ELSE Commit(w, AfterTwoWay(w).pc, AfterTwoWay(w).todo)
    /\ UNCHANGED turns

FightOneWay ==
    /\ pc = "one_way"
    /\ LET w == fight_one_way(World, Head(todo)[1], Head(todo)[2])
       IN  IF Tail(todo) # <<>> THEN Commit(w, "one_way", Tail(todo))
           ELSE Commit(w, AfterOneWay(w).pc, AfterOneWay(w).todo)
    /\ UNCHANGED turns

Move ==
    /\ pc = "move"
    /\ LET w == move(World, Head(todo))
       IN  IF Tail(todo) # <<>> THEN Commit(w, "move", Tail(todo))
           ELSE Commit(w, "loop", <<>>)
    /\ UNCHANGED turns

Next ==
    \/ StartTurn
    \/ Return
    \/ TidyPursue
    \/ TidyReduce
    \/ TidyStatus
    \/ FightAssign
    \/ FightTwoWay
    \/ FightOneWay
    \/ Move

Spec == Init /\ [][Next]_vars

(* the same turn loop from the battles on the wider field *)
SpecWide == InitWide /\ [][Next]_vars

----------------------------------------------------------------------------
(* Properties                                                              *)

Range(s) == {s[i] : i \in DOMAIN s}
NoDuplicates(s) == \A i, j \in DOMAIN s : i # j => s[i] # s[j]

(* the units an army was constructed with *)
OriginalRoster(a) == {u \in DOMAIN units : u \div 10 = a}

AtTurnBoundary == pc \in {"loop", "done"}

(* C1: at every turn boundary, for each army, the deployed units, the reserve *)
(* queue and the removed list are pairwise disjoint and without repetition,   *)
(* and together they are exactly the units the army was constructed with.     *)
C1_RosterPartition ==
    AtTurnBoundary =>
        \A a \in Armies :
            /\ NoDuplicates(army_units(World, a))
            /\ Range(army_units(World, a)) = OriginalRoster(a)

(* a turn boundary at which a unit has been removed and a reserve stands in   *)
(* the flank file the removed unit held                                       *)
C1_Witness ==
    /\ pc = "loop"
    /\ \E a \in Armies : \E i \in DOMAIN removed[a] : \E j \in DOMAIN file_units[a] :
          /\ units[removed[a][i]].file = file_units[a][j].file
          /\ file_units[a][j].file # 0

(* the position set_up gives a unit: its home moved by EPS towards the field *)
SetUpPosition(u) == unit_set_up(units[u], units[u].init_pos).position

InField(u) == Abs(units[u].position) <= Abs(units[u].init_pos)
IsRounded(u) == units[u].position % (2 * EPS) = 0

two_way_pairs == fight_pairs.two_way_pairs
one_way_pairs == fight_pairs.one_way_pairs
AllPairs == two_way_pairs \o one_way_pairs

(* the appearances of units in the pairs: as attacker and as target *)
Appearances == [i \in DOMAIN AllPairs |-> AllPairs[i][1]] \o [i \in DOMAIN AllPairs |-> AllPairs[i][2]]

(* the appearances of units as a fighting member: either member of a two-way *)
(* pair, the attacker of a one-way pair                                      *)
Fighters ==
    [i \in DOMAIN two_way_pairs |-> two_way_pairs[i][1]]
    \o [i \in DOMAIN two_way_pairs |-> two_way_pairs[i][2]]
    \o [i \in DOMAIN one_way_pairs |-> one_way_pairs[i][1]]

(* C3 (as stated): after assign_all, no unit appears in more than one pair of *)
(* two_way_pairs and one_way_pairs together, as attacker or as target.        *)
C3_NoUnitInTwoPairs == NoDuplicates(Appearances)

(* C3 (amended): after assign_all, no unit is a fighting member of more than  *)
(* one pair: it is in at most one two-way pair, or the attacker of at most    *)
(* one one-way pair, never both; a unit may besides be the target of any      *)
(* number of one-way pairs.                                                   *)
C3_NoUnitFightsInTwoPairs == NoDuplicates(Fighters)

(* a fight phase in which one unit of a two-way pair is also the target of a  *)
(* one-way pair                                                               *)
C3_Witness ==
    \E i \in DOMAIN two_way_pairs : \E j \in DOMAIN one_way_pairs :
        one_way_pairs[j][2] \in {two_way_pairs[i][1], two_way_pairs[i][2]}

assignments == fight_pairs.assignments
Assigned(u, t) == \E i \in DOMAIN assignments : assignments[i] = [unit |-> u, target |-> t]

(* the pairs that stand for the assignment u -> t *)
TwoWayFor(u, t) == {i \in DOMAIN two_way_pairs : two_way_pairs[i] \in {<<u, t>>, <<t, u>>}}
OneWayFor(u, t) == {i \in DOMAIN one_way_pairs : one_way_pairs[i] = <<u, t>>}

(* C4: after assign_all the pair lists partition the assignments: every       *)
(* assignment u -> t is represented by exactly one pair; a two-way pair has   *)
(* both u -> t and t -> u assigned and is listed once; a one-way pair (u, t)  *)
(* has u -> t assigned and t not assigned to u; all_engaged is exactly the    *)
(* set of units occurring in some pair.                                       *)
C4_PairsPartitionAssignments ==
    /\ \A i \in DOMAIN assignments :
          Cardinality(TwoWayFor(assignments[i].unit, assignments[i].target))
          + Cardinality(OneWayFor(assignments[i].unit, assignments[i].target)) = 1
    /\ \A i \in DOMAIN two_way_pairs :
          /\ Assigned(two_way_pairs[i][1], two_way_pairs[i][2])
          /\ Assigned(two_way_pairs[i][2], two_way_pairs[i][1])
    /\ \A i \in DOMAIN one_way_pairs :
          /\ Assigned(one_way_pairs[i][1], one_way_pairs[i][2])
          /\ ~Assigned(one_way_pairs[i][2], one_way_pairs[i][1])
    /\ fight_pairs.all_engaged = Range(Appearances)

(* a fight phase with three assignments: one mutual engagement, listed once,  *)
(* and one one-way attack                                                     *)
C4_Witness ==
    /\ Len(assignments) = 3
    /\ Len(two_way_pairs) = 1 /\ Len(one_way_pairs) = 1
    /\ Cardinality(fight_pairs.all_engaged) = 3

PairLists(w) == <<w.fight_pairs.two_way_pairs, w.fight_pairs.one_way_pairs>>

NoneDeployed(a) == file_units[a] = <<>>

(* C6: in every state decide_winner returns exactly one of the four outcomes: *)
(* BOTH_LOST iff neither army has a deployed unit, WIN_1 iff only army 2 has  *)
(* none, WIN_2 iff only army 1 has none, STALEMATE iff both armies have       *)
(* deployed units; and that is the outcome do returns.                        *)
C6_DecideWinnerTable ==
    /\ decide_winner(World) \in {BOTH_LOST, WIN_1, WIN_2, STALEMATE}
    /\ decide_winner(World) = BOTH_LOST <=> (NoneDeployed(1) /\ NoneDeployed(2))
    /\ decide_winner(World) = WIN_1 <=> (~NoneDeployed(1) /\ NoneDeployed(2))
    /\ decide_winner(World) = WIN_2 <=> (NoneDeployed(1) /\ ~NoneDeployed(2))
    /\ decide_winner(World) = STALEMATE <=> (~NoneDeployed(1) /\ ~NoneDeployed(2))
    /\ pc = "done" => outcome = decide_winner(World)

(* a battle fought to the end that army 2 won, its last unit standing with    *)
(* every unit of army 1 removed                                               *)
C6_Witness ==
    /\ pc = "done" /\ turns > 0
    /\ outcome = WIN_2
    /\ NoneDeployed(1) /\ removed[1] # <<>> /\ ~NoneDeployed(2)

(* C7 (as stated): do never executes more than 1000 turns: the turn counter  *)
(* is at most 1000 when do returns.                                           *)
C7_AtMostThousandTurns == pc = "done" => turns <= 1000

AllDeployedHalted ==
    \A a \in Armies : \A i \in DOMAIN file_units[a] : units[file_units[a][i].unit].halted

(* an end condition other than the turn cap *)
EndCondition == NoneDeployed(1) \/ NoneDeployed(2) \/ AllDeployedHalted

(* C8: the battle ends at the first turn boundary at which an end condition   *)
(* holds and not earlier: no turn starts from a state in which an army has no *)
(* deployed unit or every deployed unit is halted, from such a turn boundary  *)
(* do returns, and when do returns with the turn counter not beyond the cap,  *)
(* an end condition holds in the final state.                                 *)
C8_EndsExactlyOnEndCondition ==
    [][/\ turns' # turns => ~EndCondition
       /\ (pc = "loop" /\ EndCondition) => pc' = "done"
       /\ (pc # "done" /\ pc' = "done" /\ turns' <= 1000) => EndCondition']_vars

(* a battle that ended after some turns because every deployed unit of both   *)
(* armies is halted                                                           *)
C8_Witness ==
    /\ pc = "done" /\ turns > 0 /\ turns <= 1000
    /\ ~NoneDeployed(1) /\ ~NoneDeployed(2)
    /\ AllDeployedHalted

(* what a removal from army a does, u being the unit appended to removed *)
RemovalStep(a) ==
    LET u == removed'[a][Len(removed'[a])]
        f == units[u].file
        item(x) == [file |-> f, unit |-> x]
    IN  /\ removed'[a] = Append(removed[a], u)
        /\ item(u) \in Range(file_units[a])
        /\ IF reserves[a] # <<>>
           THEN /\ reserves'[a] = Tail(reserves[a])
                /\ Range(file_units'[a]) =
                      (Range(file_units[a]) \ {item(u)}) \cup {item(Head(reserves[a]))}
                /\ units'[Head(reserves[a])].file = f
           ELSE /\ reserves'[a] = reserves[a]
                /\ Range(file_units'[a]) = Range(file_units[a]) \ {item(u)}

(* C9: remove_unit is one transaction: in the step that appends a unit to     *)
(* removed, the unit leaves the file map and, if the reserve queue is not     *)
(* empty, its head is dequeued and becomes the deployed unit of exactly the   *)
(* vacated file, the rest of the queue keeping its order; with an empty queue *)
(* the file is left vacant; and the reserve queue changes in no other step,   *)
(* so that reserves are deployed in the order they were queued.               *)
C9_RemovalIsOneTransaction ==
    [][\A a \in Armies :
          /\ removed'[a] # removed[a] => RemovalStep(a)
          /\ reserves'[a] # reserves[a] => removed'[a] # removed[a]]_vars

(* an army of one deployed unit and two reserves after two removals: the      *)
(* first reserve was deployed and removed, the second now holds the file      *)
C9_Witness ==
    \E a \in Armies :
        /\ removed[a] = <<UnitId(a, 1), UnitId(a, 2)>>
        /\ deployed_units(World, a) = <<UnitId(a, 3)>>
        /\ reserves[a] = <<>>

(* the units in the pairs assigned by the step, if the step is assign_all *)
PairedByStep ==
    IF pc = "fight"
    THEN {fight_pairs'.two_way_pairs[i][k] :
            i \in DOMAIN fight_pairs'.two_way_pairs, k \in 1..2}
         \cup {fight_pairs'.one_way_pairs[i][k] :
                 i \in DOMAIN fight_pairs'.one_way_pairs, k \in 1..2}
    ELSE {}

(* C10: removal is terminal: a unit in an army's removed list is, after every *)
(* later step, still in removed, and is not deployed, not queued as a         *)
(* reserve, not paired by assign_all and not moved; and the reserve queue     *)
(* never gains a unit, so a unit once deployed never returns to it.           *)
C10_RemovalIsTerminal ==
    [][\A a \in Armies :
          /\ \A u \in Range(removed[a]) :
                /\ u \in Range(removed'[a])
                /\ \A i \in DOMAIN file_units'[a] : file_units'[a][i].unit # u
                /\ u \notin Range(reserves'[a])
                /\ u \notin PairedByStep
                /\ units'[u].position = units[u].position
          /\ Range(reserves'[a]) \subseteq Range(reserves[a])]_vars

(* a fight phase after a removal: the removed unit's file is held by the      *)
(* first reserve, which is paired in a fight, the second reserve still queued *)
C10_Witness ==
    /\ pc \in {"two_way", "one_way"}
    /\ \E a \in Armies :
          /\ removed[a] = <<UnitId(a, 1)>>
          /\ deployed_units(World, a) = <<UnitId(a, 2)>>
          /\ reserves[a] = <<UnitId(a, 3)>>
          /\ UnitId(a, 2) \in fight_pairs.all_engaged

----------------------------------------------------------------------------
(* C11: in every reachable state, for every army and every file f of its   *)
(* file map, the unit stored at f has its own file field equal to f, and   *)
(* no unit is stored under two files; this holds across reserve deployment *)
(* and file sliding.                                                       *)
C11_FileMapAgreesWithUnitFile ==
    \A a \in Armies :
        /\ \A i \in DOMAIN file_units[a] :
              units[file_units[a][i].unit].file = file_units[a][i].file
        /\ NoDuplicates(DictValues(file_units[a]))
        /\ NoDuplicates(DictKeys(file_units[a]))

(* a reserve (created with file 0, the later units of a roster) stands in a *)
(* flank file while another reserve of its army still waits                 *)
C11_Witness ==
    \E a \in Armies :
        /\ reserves[a] # <<>>
        /\ removed[a] # <<>>
        /\ \E i \in DOMAIN file_units[a] :
              /\ file_units[a][i].unit \notin Range(removed[a])
              /\ file_units[a][i].unit # UnitId(a, 1)
              /\ file_units[a][i].file # 0
              /\ units[file_units[a][i].unit].file = file_units[a][i].file

(* C12: at every point of a battle, iterating an army's file-to-unit map    *)
(* visits the deployed units in ascending file order, also after a reserve  *)
(* was deployed into a vacated file and after a unit slid toward the centre *)
C12_FileMapAscending ==
    \A a \in Armies :
        \A i, j \in DOMAIN file_units[a] :
            i < j => file_units[a][i].file < file_units[a][j].file

(* C13: Scenario B.  When each army consists of exactly one deployed unit  *)
(* and no reserves, both units have the same UnitType and the terrain is   *)
(* flat (zero roughness, height and cover), then in every turn every       *)
(* computed fight balance equals exactly 1 (the effective powers are       *)
(* equal) and push_from_fight changes no unit position.                    *)
ScenarioB ==
    /\ landscape = [cover |-> 0, roughness |-> 0, slope |-> 0]
    /\ \A a \in Armies : Cardinality(OriginalRoster(a)) = 1
    /\ \A u, v \in DOMAIN units : units[u].unit_type = units[v].unit_type

FightAtHand == pc \in {"two_way", "one_way"} /\ todo # <<>>

Positions(w) == [u \in DOMAIN w.units |-> w.units[u].position]

C13_ScenarioBBalanceIsOne ==
    (ScenarioB /\ FightAtHand) =>
        LET unit_A == Head(todo)[1]
            unit_B == Head(todo)[2]
            balance == compute_fight_balance(World, unit_A, unit_B)
        IN  /\ get_unit_eff_power(World, unit_A) = get_unit_eff_power(World, unit_B)
            /\ balance = Milli
            /\ Inverse(balance) = Milli
            /\ Positions(push_from_fight(World, unit_A, unit_B, balance)) = Positions(World)
            /\ pc = "two_way" =>
                  Positions(fight_two_way(World, unit_A, unit_B)) = Positions(World)

(* a Scenario B fight in a later turn, morale already lost on both sides, *)
(* the two units in neighbouring files                                    *)
C13_Witness ==
    /\ ScenarioB
    /\ FightAtHand
    /\ turns > 1
    /\ \A u \in DOMAIN units : units[u].morale < Milli
    /\ units[Head(todo)[1]].file # units[Head(todo)[2]].file

(* C14: runtime invariant violations fail fast without being absorbed.     *)
(* remove_unit on a unit that is not the deployed unit of its file,        *)
(* get_army_deployed_in on a unit deployed in neither army, get_other_army *)
(* on an army that is not part of the battle, and slide_file_towards_centre*)
(* when the centre-ward file is already active each abort with an error,   *)
(* and the file maps, reserve queues and removed lists of both armies are  *)
(* left unchanged.                                                         *)
Errors == {"AssertionError", "KeyError", "ValueError"}

AbortsUnchanged(w, errors) ==
    /\ w.err \in errors
    /\ w.file_units = file_units
    /\ w.reserves = reserves
    /\ w.removed = removed

DeployedIn(a, uid) ==
    /\ is_file_active(World, a, units[uid].file)
    /\ DictGet(file_units[a], units[uid].file) = uid

NotDeployed == {uid \in DOMAIN units : \A a \in Armies : ~DeployedIn(a, uid)}

CentreWard(file) == IF file < 0 THEN file + 1 ELSE file - 1

BlockedSlides ==
    {e \in Armies \X Files : /\ e[2] # 0
                             /\ is_file_active(World, e[1], e[2])
                             /\ is_file_active(World, e[1], CentreWard(e[2]))}

ForeignArmies == {NoArmy, 3}

C14_InvariantViolationsAbort ==
    /\ \A a \in Armies, uid \in DOMAIN units :
          ~DeployedIn(a, uid) =>
              AbortsUnchanged(remove_unit(World, a, uid, get_other_army(a)),
                              {"AssertionError", "KeyError"})
    /\ \A uid \in NotDeployed :
          /\ get_army_deployed_in(World, uid) = NoArmy
          /\ AbortsUnchanged(update_status(World, uid), {"ValueError"})
          /\ AbortsUnchanged(move(World, uid), {"ValueError"})
          /\ \A v \in DOMAIN units :
                /\ AbortsUnchanged(fight_two_way(World, uid, v), {"ValueError"})
                /\ AbortsUnchanged(fight_one_way(World, v, uid), {"ValueError"})
    /\ \A a \in ForeignArmies : get_other_army(a) = NoArmy
    /\ \A e \in BlockedSlides :
          AbortsUnchanged(slide_file_towards_centre(World, e[1], e[2]), {"AssertionError"})

(* a removed unit whose file a reserve has taken, a reserve still waiting, *)
(* and in the other army a flank unit beside a held centre-ward file       *)
C14_Witness ==
    /\ \E a \in Armies, uid \in NotDeployed :
          /\ uid \in Range(removed[a])
          /\ is_file_active(World, a, units[uid].file)
    /\ \E a \in Armies : reserves[a] # <<>>
    /\ BlockedSlides # {}

(* C15: the pursue morale penalty is one-time per unit.  Over a whole      *)
(* engagement each unit causes the PURSUE_MORALE penalty to be applied to  *)
(* the opposing army at most once, in the tidy phase of the turn in which  *)
(* it has first reached its advance limit; in no later tidy phase does the *)
(* same unit cause the penalty again.                                      *)
C15_PursuePenaltyOncePerUnit == NoDuplicates(penalised)

(* C16: every turn executes the phases tidy, fight, move in that order,    *)
(* each exactly once; tidy applies the pursue morale penalty, then file    *)
(* consolidation, then the status update; within fight the pairing is      *)
(* computed once, before any morale or position is changed, and is not     *)
(* recomputed during the phase, and every two-way pair is resolved before  *)
(* any one-way pair.                                                       *)
IsSuffix(s, t) == \E k \in 0..Len(t) : s = SubSeq(t, k + 1, Len(t))

SameButMorale ==
    \A u \in DOMAIN units : units[u] = [units'[u] EXCEPT !.morale = units[u].morale]

SameMoraleAndPosition ==
    \A u \in DOMAIN units :
        units'[u].morale = units[u].morale /\ units'[u].position = units[u].position

ArmiesUnchanged == UNCHANGED <<file_units, reserves, removed>>

PhaseStep ==
    /\ turns' # turns => pc = "loop" /\ pc' = "tidy" /\ turns' = turns + 1
    /\ pc = "loop" => pc' \in {"tidy", "done"} /\ UNCHANGED units /\ ArmiesUnchanged
    /\ pc = "tidy" => pc' = "reduce" /\ SameButMorale /\ ArmiesUnchanged
    /\ pc = "reduce" =>
          /\ pc' \in {"status", "fight"}
          /\ SameMoraleAndPosition /\ UNCHANGED <<reserves, removed>>
          /\ pc' = "status" => todo' = iter_all_deployed(World')
    /\ pc = "status" =>
          /\ IF Tail(todo) # <<>> THEN pc' = "status" /\ todo' = Tail(todo)
                                   ELSE pc' = "fight"
    /\ pc # "fight" => fight_pairs' = fight_pairs
    /\ pc = "fight" =>
          /\ UNCHANGED units /\ ArmiesUnchanged
          /\ fight_pairs' = assign_all(World).fight_pairs
          /\ IF fight_pairs'.two_way_pairs # <<>>
             THEN pc' = "two_way" /\ todo' = fight_pairs'.two_way_pairs
             ELSE IF fight_pairs'.one_way_pairs # <<>>
             THEN pc' = "one_way" /\ todo' = fight_pairs'.one_way_pairs
             ELSE pc' \in {"move", "loop"}
    /\ pc = "two_way" =>
          /\ IsSuffix(todo, fight_pairs.two_way_pairs) /\ todo # <<>>
          /\ ArmiesUnchanged
          /\ IF Tail(todo) # <<>> THEN pc' = "two_way" /\ todo' = Tail(todo)
             ELSE IF fight_pairs.one_way_pairs # <<>>
             THEN pc' = "one_way" /\ todo' = fight_pairs.one_way_pairs
             ELSE pc' \in {"move", "loop"}
    /\ pc = "one_way" =>
          /\ IsSuffix(todo, fight_pairs.one_way_pairs) /\ todo # <<>>
          /\ ArmiesUnchanged
          /\ IF Tail(todo) # <<>> THEN pc' = "one_way" /\ todo' = Tail(todo)
             ELSE pc' \in {"move", "loop"}
    /\ pc = "move" =>
          /\ ArmiesUnchanged
          /\ \A u \in DOMAIN units : units'[u].morale = units[u].morale
          /\ IF Tail(todo) # <<>> THEN pc' = "move" /\ todo' = Tail(todo)
                                   ELSE pc' = "loop"
    /\ (pc # "move" /\ pc' = "move") =>
          pc \in {"fight", "two_way", "one_way"} /\ todo' = get_move_order(World')

C16_PhasesInOrder == [][PhaseStep]_vars

(* the one-way pairs of a fight are at hand after its two-way pairs were *)
(* resolved, in a later turn                                             *)
C16_Witness ==
    /\ pc = "one_way"
    /\ turns > 1
    /\ fight_pairs.two_way_pairs # <<>>
    /\ todo = fight_pairs.one_way_pairs
    /\ \E u \in DOMAIN units : units[u].morale < Milli

(* C17: after FightPairs.assign_all the units that have an assignment are  *)
(* exactly the deployed units with at least one opposing unit within       *)
(* effective range in their own file or an adjacent file; each such unit   *)
(* has exactly one assigned target, which is one of its in-range           *)
(* candidates, and a unit that had exactly one candidate is assigned to    *)
(* it; the candidate pool is empty when matching finishes.                 *)
DeployedUnits == {uid \in DOMAIN units : \E a \in Armies : DeployedIn(a, uid)}

InRangeCandidates(uid) ==
    LET a == get_army_deployed_in(World, uid)
        opposing == file_units[get_other_army(a)]
    IN  {opposing[i].unit : i \in {j \in DOMAIN opposing :
            /\ Abs(opposing[j].file - units[uid].file) <= 1
            /\ is_in_range_of(units[uid], units[opposing[j].unit])}}

C17_AssignAllCoversCandidates ==
    pc = "fight" =>
        LET after == assign_all(World)
            asg == after.fight_pairs.assignments
        IN  /\ after.err = "none"
            /\ after.fight_pairs.potentials = <<>>
            /\ {asg[i].unit : i \in DOMAIN asg}
                   = {uid \in DeployedUnits : InRangeCandidates(uid) # {}}
            /\ \A i, j \in DOMAIN asg : asg[i].unit = asg[j].unit => i = j
            /\ \A i \in DOMAIN asg :
                  /\ asg[i].target \in InRangeCandidates(asg[i].unit)
                  /\ Cardinality(InRangeCandidates(asg[i].unit)) = 1 =>
                        InRangeCandidates(asg[i].unit) = {asg[i].target}

(* a fight phase with a unit that has two candidates, a unit that has one *)
(* and a deployed unit that has none                                      *)
C17_Witness ==
    /\ pc = "fight"
    /\ \E uid \in DeployedUnits : Cardinality(InRangeCandidates(uid)) = 2
    /\ \E uid \in DeployedUnits : Cardinality(InRangeCandidates(uid)) = 1
    /\ \E uid \in DeployedUnits : InRangeCandidates(uid) = {}

(* C18: in phase 3 (assign_best_remaining), between two candidate          *)
(* (attacker, target) pairs that are equal on the four higher-priority     *)
(* criteria (frontal-and-melee, melee, frontal, target already attacking   *)
(* the attacker), a pair whose target is not yet claimed by anyone, i.e.   *)
(* is not the assigned target of any unit so far, is selected in           *)
(* preference to a pair whose target is already the assigned target of     *)
(* some unit.                                                              *)
(* the states of FightPairs in which assign_best_remaining is called *)
RECURSIVE Phase3Worlds(_)
Phase3Worlds(w) ==
    IF w.fight_pairs.potentials = <<>> \/ w.err # "none" THEN {}
    ELSE {w} \cup Phase3Worlds(assign_best_remaining(w))

Phase3 == Phase3Worlds(assign_if_unique_target(add_all_potentials(reset(World))))

CandidatePairs(w) == Range(Candidates(w.fight_pairs.potentials))

(* the pair assign_best_remaining adds to the assignments *)
Selected(w) ==
    LET asg == assign_best_remaining(w).fight_pairs.assignments
    IN  asg[Len(asg)]

Claimed(w, target) ==
    \E i \in DOMAIN w.fight_pairs.assignments : w.fight_pairs.assignments[i].target = target

HigherCriteria(w, c) == SubSeq(sort_key(w, c.unit, c.target), 1, 4)

C18_UnclaimedTargetPreferred ==
    pc = "fight" =>
        \A w \in Phase3 :
            assign_best_remaining(w).err = "none" =>
                \A c \in CandidatePairs(w) :
                    ~ /\ HigherCriteria(w, c) = HigherCriteria(w, Selected(w))
                      /\ ~Claimed(w, c.target)
                      /\ Claimed(w, Selected(w).target)

(* C19: the phase 3 ordering is a deterministic strict tie-break.  In      *)
(* every state reachable during a battle no two distinct remaining         *)
(* candidate (attacker, target) pairs have equal sort keys, so the         *)
(* selected pair is decided by the key fields alone and the selection      *)
(* never has to compare the unit objects themselves (which have no         *)
(* ordering and would abort the run).                                      *)
C19_SortKeysDistinct ==
    /\ err # "TypeError"
    /\ pc = "fight" =>
          \A w \in Phase3 :
              /\ assign_best_remaining(w).err = "none"
              /\ \A c, d \in CandidatePairs(w) :
                    c # d => sort_key(w, c.unit, c.target) # sort_key(w, d.unit, d.target)

(* C20: resolving a one-way pair (attacker A, passive target B) reduces    *)
(* only B's morale and leaves A's morale and both units' positions         *)
(* unchanged; afterwards B's stance is AGGR, and every lane neighbour of B *)
(* (files +-1, same army) that is not in all_engaged and whose speed is at *)
(* least B's speed has a stance no more passive than NEUT, while all other *)
(* units' stances are unchanged.                                           *)
LaneNeighbours(unit_B) ==
    {n \in DeployedUnits :
        /\ get_army_deployed_in(World, n) = get_army_deployed_in(World, unit_B)
        /\ Abs(units[n].file - units[unit_B].file) = 1}

CalledForward(unit_B) ==
    {n \in LaneNeighbours(unit_B) :
        /\ n \notin fight_pairs.all_engaged
        /\ speed(units[n]) >= speed(units[unit_B])}

OneWayStep ==
    LET unit_A == Head(todo)[1]
        unit_B == Head(todo)[2]
    IN  /\ units'[unit_B].morale <= units[unit_B].morale
        /\ landscape.cover = 0 => units'[unit_B].morale < units[unit_B].morale
        /\ units'[unit_B].stance = AGGR
        /\ \A n \in CalledForward(unit_B) : units'[n].stance = Min(units[n].stance, NEUT)
        /\ \A u \in DOMAIN units :
              /\ u # unit_B => units'[u].morale = units[u].morale
              /\ u \notin CalledForward(unit_B) \cup {unit_B} =>
                    units'[u].stance = units[u].stance
              /\ units'[u] = [units[u] EXCEPT !.morale = units'[u].morale,
                                              !.stance = units'[u].stance]
        /\ UNCHANGED <<file_units, reserves, removed, fight_pairs>>

C20_OneWayFrame == [][pc = "one_way" => OneWayStep]_vars

(* a defensive army after a one-way pair was resolved: the target stands *)
(* aggressive and a neighbour that was called forward stands neutral     *)
C20_Witness ==
    /\ pc \in {"one_way", "move"}
    /\ fight_pairs.one_way_pairs # <<>>
    /\ \E a \in Armies :
          /\ army_stance[a] = DEFN
          /\ \E unit_B, n \in DeployedUnits :
                /\ get_army_deployed_in(World, unit_B) = a
                /\ n \in LaneNeighbours(unit_B)
                /\ units[unit_B].stance = AGGR
                /\ units[n].stance = NEUT

----------------------------------------------------------------------------
(* C21: the push of a two-way fight                                        *)

(* the pair a two-way step resolves, its balance, winner and loser *)
PairA == Head(todo)[1]
PairB == Head(todo)[2]
PairBalance == compute_fight_balance(World, PairA, PairB)
Winner == IF PairBalance > Milli THEN PairA ELSE PairB
Loser == IF PairBalance > Milli THEN PairB ELSE PairA

(* how far the step carried a unit, counted towards the home of the loser *)
Carried(uid) ==
    (units'[uid].position - units[uid].position) * Sign(units[Loser].init_pos)

(* the two units can reach each other, the loser where the step left it *)
InReachAfterRetreat ==
    /\ is_in_range_of(units[Winner], units'[Loser])
    /\ is_in_range_of(units'[Loser], units[Winner])

MutuallyInRange(us) ==
    /\ is_in_range_of(us[PairA], us[PairB])
    /\ is_in_range_of(us[PairB], us[PairA])

RetreatBounded ==
    /\ Carried(Loser) >= 0
    /\ Carried(Loser) <= StepOf(get_eff_speed(units[Winner], landscape))

WinnerFollows ==
    IF InReachAfterRetreat THEN Carried(Winner) = 0 ELSE Carried(Winner) = Carried(Loser)

InRangeAfterPush ==
    units'[Loser].position # units'[Loser].init_pos => MutuallyInRange(units')

TwoWayPush ==
    (pc = "two_way" /\ pc' # "crashed") =>
        IF PairBalance = Milli
        THEN Carried(PairA) = 0 /\ Carried(PairB) = 0
        ELSE RetreatBounded /\ WinnerFollows /\ InRangeAfterPush

(* C21: in a two-way fight with balance different from 1 the loser is moved *)
(* towards its own home edge by a distance between 0 and the winner's      *)
(* effective speed * BASE_SPEED * DELTA_T, the winner is moved by the same *)
(* signed distance exactly when the retreat took the two out of each       *)
(* other's range, and afterwards the two are mutually in range unless the  *)
(* loser stands on its home edge; with balance 1 neither unit moves.       *)
C21_TwoWayPush == [][TwoWayPush]_vars

AtHomeEdge(u) == u.position = u.init_pos
AtFarEdge(u) == u.position = -u.init_pos

(* the winner follows by the distance of the retreat as far as the rounding *)
(* to thousandths and the two edges of the field allow                      *)
WinnerFollowsCapped ==
    IF InReachAfterRetreat THEN Carried(Winner) = 0
    ELSE \/ Abs(Carried(Winner) - Carried(Loser)) <= 2 * EPS
         \/ /\ AtHomeEdge(units'[Loser])
            /\ Carried(Winner) >= Carried(Loser) - 2 * EPS
            /\ Carried(Winner) <= StepOf(get_eff_speed(units[Winner], landscape)) + EPS
         \/ /\ AtFarEdge(units'[Winner])
            /\ Carried(Winner) >= 0
            /\ Carried(Winner) <= Carried(Loser) + 2 * EPS

TwoWayPushCapped ==
    (pc = "two_way" /\ pc' # "crashed") =>
        IF PairBalance = Milli
        THEN Carried(PairA) = 0 /\ Carried(PairB) = 0
        ELSE RetreatBounded /\ WinnerFollowsCapped /\ InRangeAfterPush

(* C21, amended: as C21, the winner following by the distance of the       *)
(* retreat up to the rounding of positions to thousandths, and either unit *)
(* stopping at the edge of the field.                                      *)
C21_TwoWayPushCapped == [][TwoWayPushCapped]_vars

(* a pair right after its two-way fight: the loser pushed onto its home    *)
(* edge, the winner next to it                                             *)
C21_Witness ==
    /\ pc = "move"
    /\ todo = get_move_order(World)
    /\ \E p \in Range(fight_pairs.two_way_pairs) :
          \E l \in {p[1], p[2]}, v \in {p[1], p[2]} :
             /\ l # v
             /\ AtHomeEdge(units[l])
             /\ units[l].morale < units[v].morale
             /\ is_in_range_of(units[v], units[l])
             /\ is_in_range_of(units[l], units[v])

----------------------------------------------------------------------------
(* C22: the decision table of confirm_move                                 *)

RolledBack(u, old_pos) == [u EXCEPT !.position = old_pos, !.halted = TRUE]
Kept(u, old_pos) == IF u.position # old_pos THEN [u EXCEPT !.halted = FALSE] ELSE u

(* the gradient the threshold is compared with: scaled by 1 / (1 - new_lag) *)
(* when the lag grew (and stayed below 1), as it came otherwise             *)
ScaledGradient(gradient, old_lag, new_lag) ==
    IF old_lag < new_lag /\ new_lag < PosUnit
    THEN (gradient * PosUnit) \div (PosUnit - new_lag)
    ELSE gradient

DecisionTable(u, gradient, old_pos, old_lag, new_lag) ==
    IF get_dist_to(u, u.init_pos) < MIN_DEPLOY_DIST THEN [u EXCEPT !.halted = FALSE]
    ELSE IF old_lag < PosUnit /\ PosUnit <= new_lag THEN RolledBack(u, old_pos)
    ELSE IF ScaledGradient(gradient, old_lag, new_lag) > HALT_POWER_GRADIENT * Milli
    THEN RolledBack(u, old_pos)
    ELSE Kept(u, old_pos)

(* the arguments the table is tried with *)
Gradients == {-GradCap, 0, (HALT_POWER_GRADIENT * Milli) \div 2, HALT_POWER_GRADIENT * Milli,
              HALT_POWER_GRADIENT * Milli + 1}
Lags == {0, PosUnit \div 2, PosUnit \div 2 + 1, PosUnit - EPS, PosUnit, PosUnit + 1}

(* the unit about to move, if it moves haltingly *)
MovesHaltingly ==
    /\ pc = "move"
    /\ units[Head(todo)].stance = DEFN
    /\ LET u == units[Head(todo)]
           enemy == get_blocking_unit(World, get_other_army(get_army_deployed_in(World, Head(todo))), u)
       IN  enemy # NoUnit /\ ~is_in_range_of(u, units[enemy])

ConfirmMoveFollowsTable ==
    MovesHaltingly =>
        \A h \in BOOLEAN, old_pos \in {units[Head(todo)].position, units[Head(todo)].position + 2 * EPS},
           gradient \in Gradients, old_lag \in Lags, new_lag \in Lags :
            LET u == [units[Head(todo)] EXCEPT !.halted = h]
                v == confirm_move(u, gradient, old_pos, old_lag, new_lag)
            IN  /\ v = DecisionTable(u, gradient, old_pos, old_lag, new_lag)
                /\ v.halted # h => (v.halted <=> v.position = old_pos /\ v = RolledBack(u, old_pos))
                /\ v.position # u.position => v = RolledBack(u, old_pos)

(* the halting move of the battle itself: the unit is halted afterwards    *)
(* exactly if it stands where it stood                                     *)
HaltedIffRestored ==
    (MovesHaltingly /\ pc' # "crashed") =>
        LET uid == Head(todo)
        IN  /\ units'[uid].halted <=> units'[uid].position = units[uid].position
            /\ units'[uid] = [units[uid] EXCEPT !.position = units'[uid].position,
                                                !.halted = units'[uid].halted]

(* C22: confirm_move follows its decision table: near home the move is     *)
(* kept and halted cleared; a lag passing from below 1 to 1 or more rolls  *)
(* the move back and halts; otherwise the gradient, scaled by              *)
(* 1 / (1 - new_lag) only when the lag grew, rolls the move back and halts *)
(* if it exceeds HALT_POWER_GRADIENT, else the move is kept and halted     *)
(* cleared if the position changed. halted is set exactly when the         *)
(* position is restored to old_pos.                                        *)
C22_ConfirmMoveTable == [][ConfirmMoveFollowsTable /\ HaltedIffRestored]_vars

(* a unit halted by a rollback away from its set-up position *)
C22_Witness ==
    \E uid \in DOMAIN units :
        /\ DeployedIn(1, uid) \/ DeployedIn(2, uid)
        /\ units[uid].halted
        /\ get_dist_to(units[uid], units[uid].init_pos) >= MIN_DEPLOY_DIST

----------------------------------------------------------------------------
(* C23: get_backwards_neighbor                                             *)

(* the unit and the friendly units deployed in the files next to its own *)
WithFlankUnits(a, uid) ==
    {uid} \cup {v \in Range(deployed_units(World, a)) : Abs(units[v].file - units[uid].file) = 1}

FromHome(uid) == get_dist_to(units[uid], units[uid].init_pos)

(* C23: get_backwards_neighbor(u) returns, among u and the friendly units  *)
(* deployed in the files next to u's, the unit furthest from its own home  *)
(* position, and none when that unit is u (u winning ties).                *)
C23_BackwardsNeighborFurthestFromHome ==
    \A a \in Armies : \A uid \in Range(deployed_units(World, a)) :
        LET found == get_backwards_neighbor(World, a, uid)
        IN  IF \A v \in WithFlankUnits(a, uid) : FromHome(uid) >= FromHome(v)
            THEN found = NoUnit
            ELSE /\ found \in WithFlankUnits(a, uid) \ {uid}
                 /\ \A v \in WithFlankUnits(a, uid) : FromHome(found) >= FromHome(v)

(* C23, amended: get_backwards_neighbor(u) returns, among u and the        *)
(* friendly units deployed in the files next to u's, the unit nearest to   *)
(* its own home position, and none when that unit is u (u winning ties).   *)
C23_BackwardsNeighborNearestHome ==
    \A a \in Armies : \A uid \in Range(deployed_units(World, a)) :
        LET found == get_backwards_neighbor(World, a, uid)
        IN  IF \A v \in WithFlankUnits(a, uid) : FromHome(uid) <= FromHome(v)
            THEN found = NoUnit
            ELSE /\ found \in WithFlankUnits(a, uid) \ {uid}
                 /\ \A v \in WithFlankUnits(a, uid) : FromHome(found) <= FromHome(v)

(* an army of two units side by side, one further back than the other: the *)
(* one in front has the other as its backwards neighbour, the other none   *)
C23_Witness ==
    \E a \in Armies : \E uid, v \in Range(deployed_units(World, a)) :
        /\ v \in WithFlankUnits(a, uid) \ {uid}
        /\ FromHome(v) + PosUnit < FromHome(uid)
        /\ get_backwards_neighbor(World, a, uid) = v
        /\ get_backwards_neighbor(World, a, v) = NoUnit

----------------------------------------------------------------------------
(* C24: the deployment of a reserve                                        *)

(* the step deploys the first reserve of army a *)
Deploys(a) == reserves[a] # <<>> /\ reserves'[a] = Tail(reserves[a])

(* how far unit o stands from position p, counted towards o's own home *)
HomeSideOf(o, p) == (o.position - p) * Sign(o.init_pos)

DeploymentStep(a) ==
    LET newcomer == Head(reserves[a])
        file == units[Head(todo)].file
        other == get_other_army(a)
    IN  /\ units'[newcomer].file = file
        /\ DictHas(file_units'[a], file) /\ DictGet(file_units'[a], file) = newcomer
        /\ get_dist_to(units'[newcomer], units'[newcomer].init_pos) >= MIN_DEPLOY_DIST
        /\ file_units'[other] = file_units[other]
        /\ \A o \in Range(deployed_units(World, other)) :
              IF units[o].file = file
              THEN /\ HomeSideOf(units'[o], units'[newcomer].position) >= PosUnit
                   /\ units'[o].position # units[o].position
                        => HomeSideOf(units[o], units'[newcomer].position) < PosUnit
              ELSE units'[o].position = units[o].position

(* C24: right after a reserve is deployed into a vacated file, an opposing *)
(* unit deployed in that file lies at least 1 away from the newcomer on    *)
(* its own home side, it was moved only if it was closer than that,        *)
(* opposing units in other files were not moved, and the newcomer is at    *)
(* least MIN_DEPLOY_DIST from its own home edge.                           *)
C24_DeploymentKeepsDistance ==
    [][\A a \in Armies : (pc = "status" /\ pc' # "crashed" /\ Deploys(a)) => DeploymentStep(a)]_vars

(* a reserve just deployed, with the opposing unit of its file moved back  *)
(* to a distance of exactly 1                                              *)
C24_Witness ==
    \E a \in Armies : \E n \in Range(deployed_units(World, a)) :
        \E o \in Range(deployed_units(World, get_other_army(a))) :
            /\ \E r \in Range(removed[a]) : units[r].file = units[n].file
            /\ units[o].file = units[n].file
            /\ HomeSideOf(units[o], units[n].position) = PosUnit
            /\ get_dist_to(units[n], units[n].init_pos) >= MIN_DEPLOY_DIST
            /\ pc \in {"status", "fight"}

----------------------------------------------------------------------------
(* C25: file consolidation                                                 *)

(* the iterations of reduce_files' loop: the objects each one starts from, *)
(* and its unit                                                            *)
RECURSIVE ReduceIterations(_, _)
ReduceIterations(w, us) ==
    IF us = <<>> \/ w.err # "none" THEN {}
    ELSE {[before |-> w, unit |-> Head(us)]}
             \cup ReduceIterations(reduce_loop(w, <<Head(us)>>), Tail(us))

HoldsFile(w, a, file) == \E i \in DOMAIN w.file_units[a] : w.file_units[a][i].file = file

(* no opposing unit in the unit's file or a file next to it *)
Unopposed(w, a, file) ==
    \A f \in {file - 1, file, file + 1} : ~HoldsFile(w, get_other_army(a), f)

MaySlide(w, uid) ==
    LET u == w.units[uid]
        a == get_army_deployed_in(w, uid)
    IN  /\ u.pursuing
        /\ u.file # 0
        /\ Unopposed(w, a, u.file)
        /\ ~HoldsFile(w, a, CentreWard(u.file))

SlideIteration(it) ==
    LET w == it.before
        uid == it.unit
        after == reduce_loop(w, <<uid>>)
        a == get_army_deployed_in(w, uid)
    IN  /\ after.err = "none"
        /\ \A v \in DOMAIN w.units : v # uid => after.units[v] = w.units[v]
        /\ IF MaySlide(w, uid)
           THEN /\ after.units[uid] = [w.units[uid] EXCEPT !.file = CentreWard(w.units[uid].file)]
                /\ Range(deployed_units(after, a)) = Range(deployed_units(w, a))
                /\ Len(after.file_units[a]) = Len(w.file_units[a])
                /\ after.file_units[get_other_army(a)] = w.file_units[get_other_army(a)]
           ELSE after.units = w.units /\ after.file_units = w.file_units

(* C25: file consolidation changes a unit's file only when the unit is     *)
(* flagged pursuing, is not on file 0, no opposing unit holds its file or  *)
(* a file next to it, and the centre-ward file holds no friendly unit; the *)
(* unit then moves one file towards 0 with position, morale and flags      *)
(* unchanged; no other unit changes file and no friendly unit is           *)
(* overwritten in the file map.                                            *)
C25_ConsolidationFrame ==
    pc = "reduce" =>
        /\ \A it \in ReduceIterations(World, iter_all_deployed(World)) : SlideIteration(it)
        /\ LET w == reduce_files(World)
           IN  /\ w.err = "none"
               /\ w.reserves = reserves /\ w.removed = removed
               /\ \A a \in Armies :
                     Range(deployed_units(w, a)) = Range(deployed_units(World, a))
               /\ \A v \in DOMAIN units :
                     /\ w.units[v] = [units[v] EXCEPT !.file = w.units[v].file]
                     /\ w.units[v].file # units[v].file
                          => units[v].pursuing /\ w.units[v].file = CentreWard(units[v].file)

(* a consolidation about to slide a unit *)
C25_Witness ==
    /\ pc = "reduce"
    /\ \E it \in ReduceIterations(World, iter_all_deployed(World)) : MaySlide(it.before, it.unit)
    /\ \E a \in Armies : Len(file_units[a]) = 2

----------------------------------------------------------------------------
(* C26: the division in move_towards_haltingly                             *)

(* the unit about to move haltingly, where it is to go and how fast *)
HaltingUnit == units[Head(todo)]
HaltingArmy == get_army_deployed_in(World, Head(todo))
HaltingTarget ==
    get_position_to_attack_target(
        HaltingUnit, units[get_blocking_unit(World, get_other_army(HaltingArmy), HaltingUnit)])
HaltingSpeed == get_cohesive_speed(World, HaltingArmy, Head(todo), HaltingTarget)

----------------------------------------------------------------------------
(* C27: stances, halting and stalemate                                     *)

SomeArmyNotDefensive == \E a \in Armies : army_stance[a] # DEFN

(* C27: a unit's stance is never more passive than its army's baseline     *)
(* stance, and a unit is halted only if its army's baseline stance is      *)
(* DEFN; so if an army's baseline stance is AGGR or NEUT, the all-halted   *)
(* end condition is not met while both armies have deployed units, and a   *)
(* STALEMATE outcome arises only from the turn cap.                        *)
C27_HaltingOnlyInDefensiveArmies ==
    /\ \A a \in Armies : \A uid \in OriginalRoster(a) :
          /\ units[uid].stance <= army_stance[a]
          /\ units[uid].halted => army_stance[a] = DEFN
    /\ (SomeArmyNotDefensive /\ ~NoneDeployed(1) /\ ~NoneDeployed(2)) => ~AllDeployedHalted
    /\ (SomeArmyNotDefensive /\ pc = "done" /\ outcome = STALEMATE) => turns > TURN_CAP

(* every deployed unit of a defensive army halted, one of them called      *)
(* forward to a more aggressive stance, facing a deployed army that is not *)
(* defensive: the battle goes on                                           *)
C27_Witness ==
    /\ pc = "loop" /\ turns > 0
    /\ \E a \in Armies :
          /\ army_stance[a] = DEFN /\ army_stance[get_other_army(a)] # DEFN
          /\ ~NoneDeployed(1) /\ ~NoneDeployed(2)
          /\ \A uid \in Range(deployed_units(World, a)) : units[uid].halted
          /\ \E uid \in Range(deployed_units(World, a)) : units[uid].stance < DEFN
          /\ ~is_battle_ended(World, turns)

----------------------------------------------------------------------------
(* C28: morale only falls                                                  *)

MoralePhases == {"tidy", "two_way", "one_way"}

MoraleStep ==
    /\ \A uid \in DOMAIN units :
          /\ units[uid].morale <= Milli
          /\ units'[uid].morale <= units[uid].morale
    /\ pc \notin MoralePhases => \A uid \in DOMAIN units : units'[uid].morale = units[uid].morale

(* C28: a unit's stored morale never increases: it starts at 1, every step *)
(* of a battle leaves it at or below its previous value, so it is at most  *)
(* 1 in every reachable state; and it changes only in the tidy and fight   *)
(* phases, never in the move phase.                                        *)
C28_MoraleNeverIncreases == [][MoraleStep]_vars

(* the move phase of a battle in which a pursuit has cost a reserve morale *)
(* and a fight has cost a deployed unit morale                             *)
C28_Witness ==
    /\ pc = "move"
    /\ penalised # <<>>
    /\ \E a \in Armies :
          /\ \E uid \in Range(reserves[a]) : units[uid].morale < Milli
          /\ \E uid \in Range(deployed_units(World, a)) :
                units[uid].morale < Milli + PURSUE_MORALE * Len(penalised)

----------------------------------------------------------------------------
(* C29: the fail-fast checks                                               *)

(* the exceptions of the checks: the assertions of remove_unit and         *)
(* slide_file_towards_centre, a missing file, a unit that is not deployed, *)
(* the minimum of no speeds                                                *)
FailFast == {"AssertionError", "KeyError", "ValueError"}

IsDeployed(w, uid) == get_army_deployed_in(w, uid) # NoArmy

(* update_status is about to remove the unit *)
ToBeRemoved(uid) ==
    LET w == reset_unit_stance(World, uid)
    IN  get_unit_eff_morale(w, uid) <= 0 \/ at_home(units[uid])

(* the unit about to move has a blocking enemy out of range *)
Approaches ==
    LET u == units[Head(todo)]
        enemy == get_blocking_unit(World, get_other_army(get_army_deployed_in(World, Head(todo))), u)
    IN  enemy # NoUnit /\ ~is_in_range_of(u, units[enemy])

(* C29: no fail-fast check fires during an engagement: every remove_unit   *)
(* call is made on the unit deployed in its file, every                    *)
(* get_army_deployed_in call of tidy, fight and move on a deployed unit,   *)
(* every slide_file_towards_centre call on a file other than 0 with a free *)
(* centre-ward file, and get_minimum_laggard_speed never takes the minimum *)
(* of an empty set.                                                        *)
C29_NoFailFastCheckFires ==
    /\ err \notin FailFast
    /\ pc = "tidy" => change_morale_from_first_pursue(World).err = "none"
    /\ pc = "reduce" =>
          \A it \in ReduceIterations(World, iter_all_deployed(World)) :
              /\ IsDeployed(it.before, it.unit)
              /\ MaySlide(it.before, it.unit) =>
                    LET a == get_army_deployed_in(it.before, it.unit)
                        file == it.before.units[it.unit].file
                    IN  /\ file # 0
                        /\ ~is_file_towards_centre_active(it.before, a, file)
                        /\ slide_file_towards_centre(it.before, a, file).err = "none"
    /\ pc = "status" =>
          /\ IsDeployed(World, Head(todo))
          /\ ToBeRemoved(Head(todo)) =>
                \E a \in Armies : DeployedIn(a, Head(todo))
          /\ update_status(World, Head(todo)).err = "none"
    /\ pc \in {"two_way", "one_way"} =>
          IsDeployed(World, Head(todo)[1]) /\ IsDeployed(World, Head(todo)[2])
    /\ pc = "one_way" => fight_one_way(World, Head(todo)[1], Head(todo)[2]).err = "none"
    /\ pc = "move" =>
          /\ IsDeployed(World, Head(todo))
          /\ Approaches => HaltingSpeed # NoSpeed
          /\ move(World, Head(todo)).err \notin FailFast

(* update_status about to remove a unit of its snapshot and deploy a       *)
(* reserve, after it has dealt with another unit of the snapshot           *)
C29_Witness ==
    /\ pc = "status"
    /\ Len(todo) < Len(iter_all_deployed(World))
    /\ ToBeRemoved(Head(todo))
    /\ reserves[get_army_deployed_in(World, Head(todo))] # <<>>

====
